---- MODULE Spec2Model ----
(***************************************************************************)
(* The pipeline orchestrator of the Read-For-Me web client                 *)
(* (frontend/app/page.tsx) together with the callback wrappers of the two  *)
(* streaming generation calls (frontend/lib/api.ts) and the part of the    *)
(* audio card (audio-player-card) that decides what is rendered.           *)
(*                                                                         *)
(* One run is one call of handleSubmit.  Run r submits the r-th URL; the   *)
(* article_id derived from that URL is written r, so every result value    *)
(* carries the URL it was produced for.                                    *)
(*                                                                         *)
(* Specifications:                                                         *)
(*   Spec          the page: any number of runs, any behaviour of the      *)
(*                 services                                                *)
(*   ScenarioSpec  the page: one run in which the services behave as an    *)
(*                 end-to-end scenario says, with fairness                 *)
(*   DemuxSpec     one call of summarizeStream / generateScriptStream      *)
(*                 reading a response body chunk by chunk                  *)
(*   EngineSpec    one synthesize call of the speech synthesis engine      *)
(*   ReplaySpec    the page: one run whose occurrences are fixed, played   *)
(*                 twice under any two interleavings                       *)
(*   ThinkingSpec  the page: one reasoning buffer received piece by piece  *)
(*   AnswerSpec    the page: one answer buffer received piece by piece,    *)
(*                 with the parsers of the streaming cards                 *)
(*   WelcomeSpec   the input form shown while status is "idle"             *)
(*   LaterRunsSpec the page: the runs that follow a completed first run    *)
(*   CallSpec      one call of summarizeStream / generateScriptStream from *)
(*                 the answer to its request                               *)
(*   ExtractorSpec one call of extractArticleId                            *)
(***************************************************************************)
EXTENDS Integers, Sequences, FiniteSets, TLC

\* ------------------------------------------------------------------ bounds
\* handleSubmit is called at most MaxRuns times in a behaviour.
MaxRuns == 3
\* At most MaxEvents stream occurrences (an event, end of input, an exception)
\* happen in a behaviour, all streams together.
MaxEvents == 3

\* A stream given to the demultiplexer carries at most MaxBlocks blocks.
MaxBlocks == 3

\* A script given to the speech synthesis engine has at most MaxSegments segments.
MaxSegments == 3

\* A stream replayed under every interleaving has at most MaxTrackEvents
\* occurrences.
MaxTrackEvents == 2

\* A reasoning buffer is received in at most MaxPieces thinking events.
MaxPieces == 7

\* An answer buffer is received in at most MaxContentPieces content events.
MaxContentPieces == 6

\* The text of the WelcomeInput field is changed at most MaxInputs times.
MaxInputs == 3

\* A URL given to extractArticleId has at most MaxUrlLen UTF-16 code units.
MaxUrlLen == 5

Runs == 1..MaxRuns
Tracks == {"summary", "script"}

\* ------------------------------------------------------------------ values
\* A nullable value: null is the empty tuple, a value v is <<v>>.
Null == <<>>
Some(v) == <<v>>
Val(x) == x[1]

NL == "\n"
\* Text is a sequence of characters.
Star2 == <<"*", "*">>
\* The text deltas a thinking / content event can carry.
Deltas == { Star2 \o <<"T">> \o Star2 \o <<NL>> \o <<"b">>, <<NL, NL>> \o Star2 \o <<"U">> }
\* The messages of the Error a stream can throw.
Msgs == {"m1", "m2"}
\* The messages an error event can carry in its data ("" : an empty message).
EventMsgs == {"m1", ""}
\* The message of the Error a failed crawlUrl call throws.
CrawlMsgs == {"c1"}
\* The message of the Error a failed synthesizeAudio call throws.
SynthMsgs == {"s1"}
\* The payloads a done event of run r's summary stream can carry: the number of
\* bullet_points (0 violates the result invariant points.length >= 1).
SummaryPayloads(r) == { [article_id |-> r, bullet_points |-> n] : n \in {0, 3} }
\* The payloads a done event of run r's script stream can carry: the paragraphs,
\* each given by its length (no paragraph, one empty paragraph, one paragraph).
ScriptPayloads(r) == { [article_id |-> r, paragraphs |-> p] : p \in {<<>>, <<0>>, <<5>>} }

\* The sequences over S of length at most n.
RECURSIVE SeqsUpTo(_, _)
SeqsUpTo(S, n) ==
  IF n = 0 THEN {<<>>}
  ELSE LET shorter == SeqsUpTo(S, n - 1)
       IN shorter \cup { Append(q, x) : q \in shorter, x \in S }

EmptyStreaming == [isStreaming |-> FALSE, thinking |-> <<>>, content |-> <<>>,
                   currentThinkingTitle |-> <<>>, currentThinkingContent |-> <<>>]

VARIABLES
  \* React state of HomePage
  status, error, crawlData, summaryData, scriptData,
  audioStatus, audioError, synthesizeData, audioUrl,
  streaming, scriptStreaming,
  \* refs of HomePage
  abortControllerRef, scriptAbortControllerRef,
  \* AbortController.signal.aborted, per controller <<run, track>>
  aborted,
  \* number of handleSubmit calls so far
  nRuns,
  \* per run: the crawlUrl promise, "none" | "pending" | "resolved" | "rejected"
  crawl,
  \* per run: the closure variables summaryDone / scriptDone
  summaryDone, scriptDone,
  \* per run and track: the async iteration, "none" | "open" | "closed"
  stream,
  \* per run: synthesizeAudio calls in flight, and calls made so far
  synthPending, synthCalls,
  \* number of stream occurrences so far
  delivered,
  \* history, per run and track: onDone was invoked / onError was invoked
  doneSeen, errSeen,
  \* history, per run: the work of the run that was in flight at a later handleSubmit
  supersededWhile,
  \* history, per run: a synthesizeAudio call of the run has failed
  synthFailed,
  \* summarizeStream / generateScriptStream, one call:
  \* the blocks the server sends, and whether the last one is followed by the
  \* blank-line delimiter
  blocks, terminated,
  \* the bytes of the response body not yet read
  unread,
  \* the bytes of an incomplete character the TextDecoder holds
  decoderPending,
  \* the local variable buffer
  buffer,
  \* the events yielded so far
  yielded,
  \* the generator: "idle" | "reading" | "returned" | "threw"
  reader,
  \* what fetch answered the call with, "none" before it has answered
  streamResponse,
  \* history: the chunk boundaries so far that fell inside the blank-line
  \* delimiter ("delimiter") or inside a character ("character")
  cuts,
  \* what the services do in an end-to-end scenario: "none" | "A" | "B"
  scenario,
  \* the speech synthesis engine, one synthesize call:
  \* the number of segments of the script
  segments,
  \* per segment: its synthesis call, "pending" | "ok" | "failed"
  call,
  \* per segment: the audio its call returned
  chunks,
  \* the segments in the order in which their calls settled
  completed,
  \* the synthesize call: "idle" | "awaiting" | "done" | "failed"
  engine,
  \* the buffers handed to storage put, in order
  stored,
  \* the failures surfaced to the caller, in order
  raised,
  \* one run replayed: per track the occurrences its stream will have, in order
  occurrences,
  \* the outcome every synthesizeAudio call will have: "ok" | "failed"
  outcome,
  \* per track: the number of occurrences handed to the wrapper so far
  taken,
  \* 1 in the first replay, 2 in the second
  round,
  \* history: the settled state the first replay ended in
  firstSettled,
  \* React state of WelcomeInput
  url, validationState, supportInfo, errorMessage,
  \* debounceTimerRef: the input the pending timer will validate, if any
  debounceTimerRef,
  \* the inputs whose checkUrlSupport call is in flight
  checking,
  \* number of changes of the input so far
  inputChanges,
  \* extractArticleId, one call: its argument platform
  platform,
  \* what new URL(url) gives: null when it throws, else the id parameter and
  \* the cleaned last path segment of the URL
  parsedUrl,
  \* the code units of url that hashCode has read
  str,
  \* the local variable hash of hashCode
  hash,
  \* the value returned
  articleId,
  \* the call: "idle" | "called" | "hashing" | "returned"
  extractor

obs == <<status, error, crawlData, summaryData, scriptData,
         audioStatus, audioError, synthesizeData, audioUrl,
         streaming, scriptStreaming>>
refs == <<abortControllerRef, scriptAbortControllerRef>>
ctl == <<aborted, nRuns, crawl, summaryDone, scriptDone, stream,
         synthPending, synthCalls, delivered, doneSeen, errSeen, supersededWhile,
         synthFailed>>
\* the state of one summarizeStream / generateScriptStream call
dmx == <<blocks, terminated, unread, decoderPending, buffer, yielded, reader,
         streamResponse, cuts>>
\* the state outside the page component
\* the state of one synthesize call of the speech synthesis engine
eng == <<segments, call, chunks, completed, engine, stored, raised>>
\* the state of a replay
ilv == <<occurrences, outcome, taken, round, firstSettled>>
\* the state of WelcomeInput
wel == <<url, validationState, supportInfo, errorMessage, debounceTimerRef,
         checking, inputChanges>>
\* the state of one extractArticleId call
aid == <<platform, parsedUrl, str, hash, articleId, extractor>>
offPage == <<dmx, scenario, eng, ilv, wel, aid>>
\* the state outside one summarizeStream / generateScriptStream call
outsideDemux == <<obs, refs, ctl, scenario, eng, ilv, wel, aid>>
\* the state outside the speech synthesis engine
outsideEngine == <<obs, refs, ctl, scenario, dmx, ilv, wel, aid>>
\* the state outside WelcomeInput
outsideWelcome == <<obs, refs, ctl, scenario, dmx, eng, ilv, aid>>
\* the state outside extractArticleId
outsideExtractor == <<obs, refs, ctl, scenario, dmx, eng, ilv, wel>>
vars == <<obs, refs, ctl, offPage>>

\* ------------------------------------------------------------------ text
Whitespace == {NL, " "}

Max(S) == CHOOSE x \in S : \A y \in S : y <= x
Min(S) == CHOOSE x \in S : \A y \in S : x <= y

\* p occurs in s at position i
IsAt(s, i, p) == /\ i >= 1
                 /\ i + Len(p) - 1 <= Len(s)
                 /\ \A j \in 1..Len(p) : s[i + j - 1] = p[j]

\* String.prototype.trim
Trim(s) ==
  LET keep == { i \in 1..Len(s) : s[i] \notin Whitespace }
  IN IF keep = {} THEN <<>> ELSE SubSeq(s, Min(keep), Max(keep))

\* String.prototype.split(sep) for a separator of one or two newlines: the
\* pieces of s from position from on, at being the places where sep occurs.
RECURSIVE SplitFrom(_, _, _, _)
SplitFrom(s, sep, at, from) ==
  LET next == { i \in at : i >= from }
  IN IF next = {} THEN <<SubSeq(s, from, Len(s))>>
     ELSE LET i == Min(next)
          IN <<SubSeq(s, from, i - 1)>> \o SplitFrom(s, sep, at, i + Len(sep))
Split(s, sep) == SplitFrom(s, sep, { i \in 1..Len(s) : IsAt(s, i, sep) }, 1)

\* thinkingText.split(/\n\n(?=\*\*)/) : the places of the separators
BlockBreaks(s) ==
  { i \in 1..(Len(s) - 3) : s[i] = NL /\ s[i + 1] = NL /\ s[i + 2] = "*" /\ s[i + 3] = "*" }

\* LastBlock as it would be if the first block were taken.
FirstBlock(s) ==
  LET breaks == BlockBreaks(s)
  IN IF breaks = {} THEN s ELSE SubSeq(s, 1, Min(breaks) - 1)

\* blocks[blocks.length - 1]
LastBlock(s) ==
  LET breaks == BlockBreaks(s)
  IN IF breaks = {} THEN s ELSE SubSeq(s, Max(breaks) + 2, Len(s))

\* /^\*\*(.+?)\*\*/ : the lengths k the lazy group can take
TitleLens(b) ==
  IF ~IsAt(b, 1, Star2) THEN {}
  ELSE { k \in 1..(Len(b) - 4) : /\ b[3 + k] = "*" /\ b[4 + k] = "*"
                                 /\ \A j \in 3..(2 + k) : b[j] # NL }

\* lastBlock.replace(/^\*\*.+?\*\*\n*/, "")
StripHeading(b) ==
  LET lens == TitleLens(b)
  IN IF lens = {} THEN b
     ELSE LET e == 4 + Min(lens)
              nonNL == { i \in (e + 1)..Len(b) : b[i] # NL }
          IN IF nonNL = {} THEN <<>> ELSE SubSeq(b, Min(nonNL), Len(b))

parseLatestThinkBlock(thinkingText) ==
  IF thinkingText = <<>> THEN [title |-> <<>>, content |-> <<>>]
  ELSE LET lastBlock == LastBlock(thinkingText)
           lens == TitleLens(lastBlock)
       IN [title |-> IF lens = {} THEN <<>> ELSE SubSeq(lastBlock, 3, 2 + Min(lens)),
           content |-> Trim(StripHeading(lastBlock))]

\* ------------------------------------------------------------------ Init
\* No summarizeStream / generateScriptStream call is being followed.
DemuxIdle ==
  /\ blocks = <<>>
  /\ terminated = TRUE
  /\ unread = <<>>
  /\ decoderPending = <<>>
  /\ buffer = <<>>
  /\ yielded = <<>>
  /\ reader = "idle"
  /\ streamResponse = "none"
  /\ cuts = {}

\* No synthesize call is being followed.
EngineIdle ==
  /\ segments = 0
  /\ call = <<>>
  /\ chunks = <<>>
  /\ completed = <<>>
  /\ engine = "idle"
  /\ stored = <<>>
  /\ raised = <<>>

\* No run is being replayed.
ReplayIdle ==
  /\ occurrences = [t \in Tracks |-> <<>>]
  /\ outcome = "ok"
  /\ taken = [t \in Tracks |-> 0]
  /\ round = 1
  /\ firstSettled = Null

\* No extractArticleId call is being followed.
ExtractorIdle ==
  /\ platform = "other"
  /\ parsedUrl = Null
  /\ str = <<>>
  /\ hash = 0
  /\ articleId = Null
  /\ extractor = "idle"

\* WelcomeInput after its first render: the effect has started the timer for
\* the empty input.
WelcomeMounted ==
  /\ url = ""
  /\ validationState = "idle"
  /\ supportInfo = Null
  /\ errorMessage = Null
  /\ debounceTimerRef = Some("")
  /\ checking = {}
  /\ inputChanges = 0

\* HomePage after its first render.
PageInit ==
  /\ status = "idle"
  /\ error = Null
  /\ crawlData = Null
  /\ summaryData = Null
  /\ scriptData = Null
  /\ audioStatus = "idle"
  /\ audioError = Null
  /\ synthesizeData = Null
  /\ audioUrl = Null
  /\ streaming = EmptyStreaming
  /\ scriptStreaming = EmptyStreaming
  /\ abortControllerRef = Null
  /\ scriptAbortControllerRef = Null
  /\ aborted = {}
  /\ nRuns = 0
  /\ crawl = [r \in Runs |-> "none"]
  /\ summaryDone = [r \in Runs |-> FALSE]
  /\ scriptDone = [r \in Runs |-> FALSE]
  /\ stream = [r \in Runs |-> [t \in Tracks |-> "none"]]
  /\ synthPending = [r \in Runs |-> 0]
  /\ synthCalls = [r \in Runs |-> 0]
  /\ delivered = 0
  /\ doneSeen = [r \in Runs |-> [t \in Tracks |-> FALSE]]
  /\ errSeen = [r \in Runs |-> [t \in Tracks |-> FALSE]]
  /\ supersededWhile = [r \in Runs |-> {}]
  /\ synthFailed = [r \in Runs |-> FALSE]

Init ==
  PageInit /\ WelcomeMounted /\ ExtractorIdle /\ DemuxIdle /\ EngineIdle /\ ReplayIdle /\ scenario = "none"

\* ------------------------------------------------------------------ handleSubmit
\* The controllers the two refs hold.
HeldControllers ==
  (IF abortControllerRef = Null THEN {} ELSE {<<Val(abortControllerRef), "summary">>})
  \cup
  (IF scriptAbortControllerRef = Null THEN {} ELSE {<<Val(scriptAbortControllerRef), "script">>})

\* The work of run r that has not finished: its crawlUrl call, its streams,
\* its synthesizeAudio calls.
InFlight(r) ==
  (IF crawl[r] = "pending" THEN {"crawl"} ELSE {})
  \cup { t \in Tracks : stream[r][t] = "open" }
  \cup (IF synthPending[r] > 0 THEN {"synth"} ELSE {})

\* The forms that call handleSubmit (Header, and WelcomeInput while status is
\* "idle") submit only while the page is not loading.
isLoading == status = "crawling" \/ status = "processing"

\* HandleSubmit as it would be without setSummaryData(null).
HandleSubmitKeepsSummary(r) ==
  /\ r = nRuns + 1
  /\ r <= MaxRuns
  /\ ~isLoading
  /\ nRuns' = r
  /\ aborted' = aborted \cup HeldControllers
  /\ status' = "crawling"
  /\ error' = Null
  /\ crawlData' = Null
  /\ summaryData' = summaryData
  /\ scriptData' = Null
  /\ audioStatus' = "idle"
  /\ audioError' = Null
  /\ synthesizeData' = Null
  /\ audioUrl' = Null
  /\ streaming' = EmptyStreaming
  /\ scriptStreaming' = EmptyStreaming
  /\ crawl' = [crawl EXCEPT ![r] = "pending"]
  /\ supersededWhile' = [q \in Runs |-> supersededWhile[q] \cup InFlight(q)]
  /\ UNCHANGED <<refs, summaryDone, scriptDone, stream, synthPending, synthCalls,
                 delivered, doneSeen, errSeen, synthFailed, offPage>>

\* A form submits the next URL: handleSubmit up to its first await (crawlUrl):
\* abort, reset, request.
HandleSubmit(r) ==
  /\ r = nRuns + 1
  /\ r <= MaxRuns
  /\ ~isLoading
  /\ nRuns' = r
  /\ aborted' = aborted \cup HeldControllers
  /\ status' = "crawling"
  /\ error' = Null
  /\ crawlData' = Null
  /\ summaryData' = Null
  /\ scriptData' = Null
  /\ audioStatus' = "idle"
  /\ audioError' = Null
  /\ synthesizeData' = Null
  /\ audioUrl' = Null
  /\ streaming' = EmptyStreaming
  /\ scriptStreaming' = EmptyStreaming
  /\ crawl' = [crawl EXCEPT ![r] = "pending"]
  /\ supersededWhile' = [q \in Runs |-> supersededWhile[q] \cup InFlight(q)]
  /\ UNCHANGED <<refs, summaryDone, scriptDone, stream, synthPending, synthCalls,
                 delivered, doneSeen, errSeen, synthFailed, offPage>>

\* The continuation of handleSubmit after crawlUrl resolved: both tracks start.
CrawlResolve(r) ==
  /\ crawl[r] = "pending"
  /\ crawl' = [crawl EXCEPT ![r] = "resolved"]
  /\ crawlData' = Some(r)
  /\ status' = "processing"
  /\ streaming' = [streaming EXCEPT !.isStreaming = TRUE]
  /\ audioStatus' = "scripting"
  /\ scriptStreaming' = [scriptStreaming EXCEPT !.isStreaming = TRUE]
  /\ abortControllerRef' = Some(r)
  /\ scriptAbortControllerRef' = Some(r)
  /\ stream' = [stream EXCEPT ![r] = [t \in Tracks |-> "open"]]
  /\ UNCHANGED <<error, summaryData, scriptData, audioError, synthesizeData, audioUrl,
                 aborted, nRuns, summaryDone, scriptDone, synthPending, synthCalls,
                 delivered, doneSeen, errSeen, supersededWhile, synthFailed, offPage>>

\* CrawlReject as it would be if the catch block also marked the audio failed.
CrawlRejectFailsAudio(r, m) ==
  /\ crawl[r] = "pending"
  /\ crawl' = [crawl EXCEPT ![r] = "rejected"]
  /\ error' = Some([stage |-> "crawl", message |-> m])
  /\ status' = "error"
  /\ audioStatus' = "error"
  /\ UNCHANGED <<crawlData, summaryData, scriptData, audioError,
                 synthesizeData, audioUrl, streaming, scriptStreaming, refs,
                 aborted, nRuns, summaryDone, scriptDone, stream, synthPending,
                 synthCalls, delivered, doneSeen, errSeen, supersededWhile, synthFailed, offPage>>

\* The catch block of handleSubmit after crawlUrl rejected with message m.
CrawlReject(r, m) ==
  /\ crawl[r] = "pending"
  /\ crawl' = [crawl EXCEPT ![r] = "rejected"]
  /\ error' = Some([stage |-> "crawl", message |-> m])
  /\ status' = "error"
  /\ UNCHANGED <<crawlData, summaryData, scriptData, audioStatus, audioError,
                 synthesizeData, audioUrl, streaming, scriptStreaming, refs,
                 aborted, nRuns, summaryDone, scriptDone, stream, synthPending,
                 synthCalls, delivered, doneSeen, errSeen, supersededWhile, synthFailed, offPage>>

\* ------------------------------------------------------------------ callbacks
\* The closure and history variables a callback can write.
cb == <<summaryDone, scriptDone, synthPending, synthCalls, doneSeen, errSeen>>

\* checkAllDone, called with the values summaryDone and scriptDone then have.
checkAllDone(sDone, cDone) == IF sDone /\ cDone THEN "done" ELSE status

\* SummaryOnThinking as it would be if the new text were put before the old.
SummaryOnThinkingPrepends(r, text) ==
  /\ streaming' =
       LET newThinking == text \o streaming.thinking
           parsed == parseLatestThinkBlock(newThinking)
       IN [streaming EXCEPT !.thinking = newThinking,
                            !.currentThinkingTitle = parsed.title,
                            !.currentThinkingContent = parsed.content]
  /\ UNCHANGED <<status, error, crawlData, summaryData, scriptData, audioStatus,
                 audioError, synthesizeData, audioUrl, scriptStreaming, cb>>

\* Track 1 (summary): onThinking
SummaryOnThinking(r, text) ==
  /\ streaming' =
       LET newThinking == streaming.thinking \o text
           parsed == parseLatestThinkBlock(newThinking)
       IN [streaming EXCEPT !.thinking = newThinking,
                            !.currentThinkingTitle = parsed.title,
                            !.currentThinkingContent = parsed.content]
  /\ UNCHANGED <<status, error, crawlData, summaryData, scriptData, audioStatus,
                 audioError, synthesizeData, audioUrl, scriptStreaming, cb>>

\* SummaryOnContent as it would be if the new text replaced the old.
SummaryOnContentReplaces(r, text) ==
  /\ streaming' = [streaming EXCEPT !.content = text]
  /\ UNCHANGED <<status, error, crawlData, summaryData, scriptData, audioStatus,
                 audioError, synthesizeData, audioUrl, scriptStreaming, cb>>

\* Track 1 (summary): onContent
SummaryOnContent(r, text) ==
  /\ streaming' = [streaming EXCEPT !.content = streaming.content \o text]
  /\ UNCHANGED <<status, error, crawlData, summaryData, scriptData, audioStatus,
                 audioError, synthesizeData, audioUrl, scriptStreaming, cb>>

\* Track 1 (summary): onDone
SummaryOnDone(r, result) ==
  /\ summaryData' = Some(result)
  /\ streaming' = [streaming EXCEPT !.isStreaming = FALSE]
  /\ summaryDone' = [summaryDone EXCEPT ![r] = TRUE]
  /\ status' = checkAllDone(TRUE, scriptDone[r])
  /\ doneSeen' = [doneSeen EXCEPT ![r]["summary"] = TRUE]
  /\ UNCHANGED <<error, crawlData, scriptData, audioStatus, audioError,
                 synthesizeData, audioUrl, scriptStreaming,
                 scriptDone, synthPending, synthCalls, errSeen>>

\* SummaryOnError as it would be if a summary failure also failed the audio.
SummaryOnErrorFailsAudio(r, errorMsg) ==
  /\ error' = Some([stage |-> "summarize", message |-> errorMsg])
  /\ streaming' = [streaming EXCEPT !.isStreaming = FALSE]
  /\ audioStatus' = "error"
  /\ summaryDone' = [summaryDone EXCEPT ![r] = TRUE]
  /\ status' = checkAllDone(TRUE, scriptDone[r])
  /\ errSeen' = [errSeen EXCEPT ![r]["summary"] = TRUE]
  /\ UNCHANGED <<crawlData, summaryData, scriptData, audioError,
                 synthesizeData, audioUrl, scriptStreaming,
                 scriptDone, synthPending, synthCalls, doneSeen>>

\* SummaryOnError as it would be if a summary failure also cleared the script.
SummaryOnErrorClearsScript(r, errorMsg) ==
  /\ error' = Some([stage |-> "summarize", message |-> errorMsg])
  /\ streaming' = [streaming EXCEPT !.isStreaming = FALSE]
  /\ scriptData' = Null
  /\ summaryDone' = [summaryDone EXCEPT ![r] = TRUE]
  /\ status' = checkAllDone(TRUE, scriptDone[r])
  /\ errSeen' = [errSeen EXCEPT ![r]["summary"] = TRUE]
  /\ UNCHANGED <<crawlData, summaryData, audioStatus, audioError,
                 synthesizeData, audioUrl, scriptStreaming,
                 scriptDone, synthPending, synthCalls, doneSeen>>

\* Track 1 (summary): onError
SummaryOnError(r, errorMsg) ==
  /\ error' = Some([stage |-> "summarize", message |-> errorMsg])
  /\ streaming' = [streaming EXCEPT !.isStreaming = FALSE]
  /\ summaryDone' = [summaryDone EXCEPT ![r] = TRUE]
  /\ status' = checkAllDone(TRUE, scriptDone[r])
  /\ errSeen' = [errSeen EXCEPT ![r]["summary"] = TRUE]
  /\ UNCHANGED <<crawlData, summaryData, scriptData, audioStatus, audioError,
                 synthesizeData, audioUrl, scriptStreaming,
                 scriptDone, synthPending, synthCalls, doneSeen>>

\* Track 2 (script): onThinking
ScriptOnThinking(r, text) ==
  /\ scriptStreaming' =
       LET newThinking == scriptStreaming.thinking \o text
           parsed == parseLatestThinkBlock(newThinking)
       IN [scriptStreaming EXCEPT !.thinking = newThinking,
                                  !.currentThinkingTitle = parsed.title,
                                  !.currentThinkingContent = parsed.content]
  /\ UNCHANGED <<status, error, crawlData, summaryData, scriptData, audioStatus,
                 audioError, synthesizeData, audioUrl, streaming, cb>>

\* Track 2 (script): onContent
ScriptOnContent(r, text) ==
  /\ scriptStreaming' = [scriptStreaming EXCEPT !.content = scriptStreaming.content \o text]
  /\ UNCHANGED <<status, error, crawlData, summaryData, scriptData, audioStatus,
                 audioError, synthesizeData, audioUrl, streaming, cb>>

\* Track 2 (script): onDone up to its await: the result is stored and
\* synthesizeAudio is called (audioStatus passes "done" and is "synthesizing"
\* when the handler yields).
ScriptOnDone(r, result) ==
  /\ scriptData' = Some(result)
  /\ scriptStreaming' = [scriptStreaming EXCEPT !.isStreaming = FALSE]
  /\ scriptDone' = [scriptDone EXCEPT ![r] = TRUE]
  /\ status' = checkAllDone(summaryDone[r], TRUE)
  /\ audioStatus' = "synthesizing"
  /\ synthPending' = [synthPending EXCEPT ![r] = @ + 1]
  /\ synthCalls' = [synthCalls EXCEPT ![r] = @ + 1]
  /\ doneSeen' = [doneSeen EXCEPT ![r]["script"] = TRUE]
  /\ UNCHANGED <<error, crawlData, summaryData, audioError, synthesizeData,
                 audioUrl, streaming, summaryDone, errSeen>>

\* Track 2 (script): onError
ScriptOnError(r, errorMsg) ==
  /\ audioError' = Some(errorMsg)
  /\ scriptStreaming' = [scriptStreaming EXCEPT !.isStreaming = FALSE]
  /\ audioStatus' = "error"
  /\ scriptDone' = [scriptDone EXCEPT ![r] = TRUE]
  /\ status' = checkAllDone(summaryDone[r], TRUE)
  /\ errSeen' = [errSeen EXCEPT ![r]["script"] = TRUE]
  /\ UNCHANGED <<error, crawlData, summaryData, scriptData, synthesizeData,
                 audioUrl, streaming, summaryDone, synthPending, synthCalls, doneSeen>>

\* SynthResolve as it would be without setAudioStatus("ready").
SynthResolveKeepsStatus(r) ==
  /\ synthPending[r] > 0
  /\ synthPending' = [synthPending EXCEPT ![r] = @ - 1]
  /\ synthesizeData' = Some([article_id |-> r])
  /\ audioUrl' = Some(r)
  /\ UNCHANGED <<status, error, crawlData, summaryData, scriptData, audioStatus, audioError,
                 streaming, scriptStreaming, refs, aborted, nRuns, crawl,
                 summaryDone, scriptDone, stream, synthCalls, delivered,
                 doneSeen, errSeen, supersededWhile, synthFailed, offPage>>

\* Track 2 (script): onDone after synthesizeAudio resolved
SynthResolve(r) ==
  /\ synthPending[r] > 0
  /\ synthPending' = [synthPending EXCEPT ![r] = @ - 1]
  /\ synthesizeData' = Some([article_id |-> r])
  /\ audioUrl' = Some(r)
  /\ audioStatus' = "ready"
  /\ UNCHANGED <<status, error, crawlData, summaryData, scriptData, audioError,
                 streaming, scriptStreaming, refs, aborted, nRuns, crawl,
                 summaryDone, scriptDone, stream, synthCalls, delivered,
                 doneSeen, errSeen, supersededWhile, synthFailed, offPage>>

\* Track 2 (script): onDone after synthesizeAudio rejected with message m
SynthReject(r, m) ==
  /\ synthPending[r] > 0
  /\ synthPending' = [synthPending EXCEPT ![r] = @ - 1]
  /\ audioError' = Some(m)
  /\ audioStatus' = "error"
  /\ synthFailed' = [synthFailed EXCEPT ![r] = TRUE]
  /\ UNCHANGED <<status, error, crawlData, summaryData, scriptData, synthesizeData,
                 audioUrl, streaming, scriptStreaming, refs, aborted, nRuns, crawl,
                 summaryDone, scriptDone, stream, synthCalls, delivered,
                 doneSeen, errSeen, supersededWhile, offPage>>

\* ------------------------------------------------------------------ streams
\* The fixed text (in Korean in the source) given to an error event without
\* a message.
UnknownError == "unknown error"

\* ErrorData as it would be if every error event were given the fixed text.
ErrorDataAlwaysFixed(e) == UnknownError

\* The error member of the error event the generator yields for a block whose
\* data carries the message e: `parsed.error || <the fixed text>`.
ErrorData(e) == IF e = "" THEN UnknownError ELSE e

\* controller.signal.aborted of the controller of run r's track t
Aborted(r, t) == <<r, t>> \in aborted

\* `if (controller.signal.aborted) break;` : the iteration ends, no callback.
Break(r, t) ==
  /\ stream' = [stream EXCEPT ![r][t] = "closed"]
  /\ UNCHANGED <<obs, cb>>

\* The next event of the stream is handed to the for-await loop.
Arrives(r, t) ==
  /\ stream[r][t] = "open"
  /\ delivered < MaxEvents
  /\ delivered' = delivered + 1
  /\ UNCHANGED <<refs, aborted, nRuns, crawl, supersededWhile, synthFailed, offPage>>

DeliverThinking(r, t, text) ==
  /\ Arrives(r, t)
  /\ IF Aborted(r, t) THEN Break(r, t)
     ELSE /\ UNCHANGED stream
          /\ IF t = "summary" THEN SummaryOnThinking(r, text) ELSE ScriptOnThinking(r, text)

DeliverContent(r, t, text) ==
  /\ Arrives(r, t)
  /\ IF Aborted(r, t) THEN Break(r, t)
     ELSE /\ UNCHANGED stream
          /\ IF t = "summary" THEN SummaryOnContent(r, text) ELSE ScriptOnContent(r, text)

DeliverSummaryDone(r, result) ==
  /\ Arrives(r, "summary")
  /\ IF Aborted(r, "summary") THEN Break(r, "summary")
     ELSE UNCHANGED stream /\ SummaryOnDone(r, result)

DeliverScriptDone(r, result) ==
  /\ Arrives(r, "script")
  /\ IF Aborted(r, "script") THEN Break(r, "script")
     ELSE UNCHANGED stream /\ ScriptOnDone(r, result)

DeliverError(r, t, errorMsg) ==
  /\ Arrives(r, t)
  /\ IF Aborted(r, t) THEN Break(r, t)
     ELSE /\ UNCHANGED stream
          /\ IF t = "summary" THEN SummaryOnError(r, errorMsg) ELSE ScriptOnError(r, errorMsg)

\* The stream reaches end of input: the for-await loop ends, no callback.
StreamEnd(r, t) ==
  /\ stream[r][t] = "open"
  /\ delivered < MaxEvents
  /\ delivered' = delivered + 1
  /\ stream' = [stream EXCEPT ![r][t] = "closed"]
  /\ UNCHANGED <<obs, refs, aborted, nRuns, crawl, cb, supersededWhile, synthFailed, offPage>>

\* fetch or reader.read() throws an Error with message m: the catch block of
\* the wrapper calls onError.
StreamThrow(r, t, m) ==
  /\ stream[r][t] = "open"
  /\ delivered < MaxEvents
  /\ delivered' = delivered + 1
  /\ stream' = [stream EXCEPT ![r][t] = "closed"]
  /\ UNCHANGED <<refs, aborted, nRuns, crawl, supersededWhile, synthFailed, offPage>>
  /\ IF t = "summary" THEN SummaryOnError(r, m) ELSE ScriptOnError(r, m)

\* ------------------------------------------------------------------ Next
Next ==
  \/ \E r \in Runs : HandleSubmit(r)
  \/ \E r \in Runs : CrawlResolve(r)
  \/ \E r \in Runs, m \in CrawlMsgs : CrawlReject(r, m)
  \/ \E r \in Runs, t \in Tracks, d \in Deltas : DeliverThinking(r, t, d)
  \/ \E r \in Runs, t \in Tracks, d \in Deltas : DeliverContent(r, t, d)
  \/ \E r \in Runs : \E p \in SummaryPayloads(r) : DeliverSummaryDone(r, p)
  \/ \E r \in Runs : \E p \in ScriptPayloads(r) : DeliverScriptDone(r, p)
  \/ \E r \in Runs, t \in Tracks, m \in EventMsgs : DeliverError(r, t, ErrorData(m))
  \/ \E r \in Runs, t \in Tracks : StreamEnd(r, t)
  \/ \E r \in Runs, t \in Tracks, m \in Msgs : StreamThrow(r, t, m)
  \/ \E r \in Runs : SynthResolve(r)
  \/ \E r \in Runs, m \in SynthMsgs : SynthReject(r, m)

Spec == Init /\ [][Next]_vars

\* ------------------------------------------------------------------ later runs
\* The page after a first run in which crawlUrl resolved and both streams
\* delivered their done event and stayed open, the synthesizeAudio call still
\* pending: the state Spec is in after HandleSubmit(1), CrawlResolve(1),
\* DeliverSummaryDone and DeliverScriptDone.
FirstRunDone ==
  /\ status = "done"
  /\ error = Null
  /\ crawlData = Some(1)
  /\ summaryData = Some([article_id |-> 1, bullet_points |-> 3])
  /\ scriptData = Some([article_id |-> 1, paragraphs |-> <<5>>])
  /\ audioStatus = "synthesizing"
  /\ audioError = Null
  /\ synthesizeData = Null
  /\ audioUrl = Null
  /\ streaming = EmptyStreaming
  /\ scriptStreaming = EmptyStreaming
  /\ abortControllerRef = Some(1)
  /\ scriptAbortControllerRef = Some(1)
  /\ aborted = {}
  /\ nRuns = 1
  /\ crawl = [r \in Runs |-> IF r = 1 THEN "resolved" ELSE "none"]
  /\ summaryDone = [r \in Runs |-> r = 1]
  /\ scriptDone = [r \in Runs |-> r = 1]
  /\ stream = [r \in Runs |-> [t \in Tracks |-> IF r = 1 THEN "open" ELSE "none"]]
  /\ synthPending = [r \in Runs |-> IF r = 1 THEN 1 ELSE 0]
  /\ synthCalls = [r \in Runs |-> IF r = 1 THEN 1 ELSE 0]
  /\ doneSeen = [r \in Runs |-> [t \in Tracks |-> r = 1]]
  /\ errSeen = [r \in Runs |-> [t \in Tracks |-> FALSE]]
  /\ supersededWhile = [r \in Runs |-> {}]
  /\ synthFailed = [r \in Runs |-> FALSE]

\* The runs that follow such a first run; the occurrences of the first run
\* are not counted.
LaterRunsInit ==
  /\ FirstRunDone
  /\ delivered = 0
  /\ WelcomeMounted /\ ExtractorIdle /\ DemuxIdle /\ EngineIdle /\ ReplayIdle /\ scenario = "none"

LaterRunsSpec == LaterRunsInit /\ [][Next]_vars

\* ------------------------------------------------------------------ end-to-end scenarios
\* One run in which the services behave as an end-to-end scenario says:
\* extraction succeeds, each stream sends text and then its last event, and
\* synthesis succeeds.  In scenario A both streams end with a done event; in
\* scenario B the summary stream fails (an error event or an exception of the
\* reader) and the script stream ends with a done event.
Terminal(t) == doneSeen[1][t] \/ errSeen[1][t]

\* The last events the two streams still have to send.
LastEventsDue == Cardinality({ t \in Tracks : ~Terminal(t) })

ScenarioInit ==
  /\ PageInit /\ WelcomeMounted /\ ExtractorIdle /\ DemuxIdle /\ EngineIdle /\ ReplayIdle
  /\ scenario \in {"A", "B"}

\* A stream sends text before its last event.
ScenarioText(t, d) ==
  /\ ~Terminal(t)
  /\ delivered + 1 + LastEventsDue <= MaxEvents
  /\ DeliverThinking(1, t, d) \/ DeliverContent(1, t, d)

\* The summary stream sends its last event.
ScenarioSummaryLast ==
  /\ ~Terminal("summary")
  /\ IF scenario = "A"
     THEN \E p \in SummaryPayloads(1) : DeliverSummaryDone(1, p)
     ELSE \/ \E m \in EventMsgs : DeliverError(1, "summary", ErrorData(m))
          \/ \E m \in Msgs : StreamThrow(1, "summary", m)

\* The script stream sends its last event.
ScenarioScriptLast ==
  /\ ~Terminal("script")
  /\ \E p \in ScriptPayloads(1) : DeliverScriptDone(1, p)

ScenarioNext ==
  \/ HandleSubmit(1)
  \/ CrawlResolve(1)
  \/ \E t \in Tracks, d \in Deltas : ScenarioText(t, d)
  \/ ScenarioSummaryLast
  \/ ScenarioScriptLast
  \/ SynthResolve(1)

\* Every response that is due arrives and every callback that is ready runs.
ScenarioSpec == ScenarioInit /\ [][ScenarioNext]_vars /\ WF_vars(ScenarioNext)

\* The accumulator of track t.
Accumulator(t) == IF t = "summary" THEN streaming ELSE scriptStreaming

\* ------------------------------------------------------------------ reasoning text
\* One run whose summary stream delivers the reasoning text in thinking events
\* of one piece each: a heading marker, one star, a newline, a letter, a space.
ThinkPieces == {Star2, <<"*">>, <<NL>>, <<"a">>, <<" ">>}

\* The next thinking event of the summary stream is given to onThinking.
ThinkingArrives(text) ==
  /\ stream[1]["summary"] = "open"
  /\ ~Aborted(1, "summary")
  /\ delivered < MaxPieces
  /\ delivered' = delivered + 1
  /\ SummaryOnThinking(1, text)
  /\ UNCHANGED <<refs, aborted, nRuns, crawl, stream, supersededWhile, synthFailed, offPage>>

ThinkingNext ==
  \/ HandleSubmit(1)
  \/ CrawlResolve(1)
  \/ \E text \in ThinkPieces : ThinkingArrives(text)

ThinkingSpec == Init /\ [][ThinkingNext]_vars

\* ------------------------------------------------------------------ answer text
\* The answer sub-parsers of the two cards, applied at every render to the
\* content buffer of their track.  Text is a sequence of symbols: BodyMarker
\* is the body section marker of the track (the bracketed word for "summary"
\* in the summary stream, for "script" in the script stream), "-" a bullet
\* character.
BodyMarker == "[body]"
BulletChars == {"-"}

\* content.match(/\[marker\]\s*\n([\s\S]*?)$/) : the places of the marker
\* where the pattern matches (the whitespace after the marker holds a newline).
WhitespaceRun(s, i) ==
  { j \in i..Len(s) : \A k \in i..j : s[k] \in Whitespace }
SectionMatches(s) ==
  { i \in 1..Len(s) : s[i] = BodyMarker /\ \E j \in WhitespaceRun(s, i + 1) : s[j] = NL }

\* match[1] : \s* takes the whitespace up to its last newline.
SectionText(s) ==
  LET i == Min(SectionMatches(s))
      n == Max({ j \in WhitespaceRun(s, i + 1) : s[j] = NL })
  IN SubSeq(s, n + 1, Len(s))

\* trimmed.replace(/^[bullet]\s*/, "").trim() for a line that starts with a
\* bullet character.
BulletText(trimmed) ==
  LET rest == Tail(trimmed)
      text == { i \in 1..Len(rest) : rest[i] \notin Whitespace }
  IN Trim(IF text = {} THEN <<>> ELSE SubSeq(rest, Min(text), Len(rest)))

\* The loop over the lines.
RECURSIVE BulletPointsOf(_)
BulletPointsOf(lines) ==
  IF lines = <<>> THEN <<>>
  ELSE LET trimmed == Trim(Head(lines))
       IN (IF trimmed # <<>> /\ trimmed[1] \in BulletChars /\ BulletText(trimmed) # <<>>
           THEN <<BulletText(trimmed)>> ELSE <<>>)
          \o BulletPointsOf(Tail(lines))

\* summaryMatch ? summaryMatch[1] : content
SummaryTextOf(content) ==
  IF SectionMatches(content) = {} THEN content ELSE SectionText(content)

parseStreamingBulletPoints(content) ==
  IF content = <<>> THEN <<>>
  ELSE BulletPointsOf(Split(SummaryTextOf(content), <<NL>>))

\* scriptText.split(/\n\n+/) : the pieces of s between its runs of two or
\* more newlines.
RECURSIVE SplitParagraphs(_)
SplitParagraphs(s) ==
  LET at == { i \in 1..(Len(s) - 1) : s[i] = NL /\ s[i + 1] = NL }
  IN IF at = {} THEN <<s>>
     ELSE LET i == Min(at)
              after == { j \in i..Len(s) : s[j] # NL }
          IN <<SubSeq(s, 1, i - 1)>>
             \o SplitParagraphs(IF after = {} THEN <<>>
                                ELSE SubSeq(s, Min(after), Len(s)))

\* .map((p) => p.trim()).filter(Boolean)
RECURSIVE TrimmedNonEmpty(_)
TrimmedNonEmpty(ps) ==
  IF ps = <<>> THEN <<>>
  ELSE (IF Trim(Head(ps)) = <<>> THEN <<>> ELSE <<Trim(Head(ps))>>)
       \o TrimmedNonEmpty(Tail(ps))

parseStreamingParagraphs(content) ==
  IF content = <<>> THEN <<>>
  ELSE IF SectionMatches(content) = {} THEN <<>>
  ELSE TrimmedNonEmpty(SplitParagraphs(SectionText(content)))

\* One run in which one of the two streams delivers the answer text in content
\* events of one symbol each.
ContentPieces == {<<BodyMarker>>, <<NL>>, <<" ">>, <<"-">>, <<"a">>}

\* The next content event of the stream of track t is given to onContent.
ContentArrives(t, text) ==
  /\ stream[1][t] = "open"
  /\ ~Aborted(1, t)
  /\ \A u \in Tracks \ {t} : Accumulator(u).content = <<>>
  /\ delivered < MaxContentPieces
  /\ delivered' = delivered + 1
  /\ IF t = "summary" THEN SummaryOnContent(1, text) ELSE ScriptOnContent(1, text)
  /\ UNCHANGED <<refs, aborted, nRuns, crawl, stream, supersededWhile, synthFailed, offPage>>

AnswerNext ==
  \/ HandleSubmit(1)
  \/ CrawlResolve(1)
  \/ \E t \in Tracks, text \in ContentPieces : ContentArrives(t, text)

AnswerSpec == Init /\ [][AnswerNext]_vars

\* ------------------------------------------------------------------ WelcomeInput
\* The input form shown while status is "idle".  An input is the empty text,
\* a text that is not a URL, or one of two well-formed http(s) URLs.
Inputs == {"", "not a url", "u1", "u2"}

\* isValidUrlFormat
isValidUrlFormat(inputUrl) == inputUrl \in {"u1", "u2"}

\* What a checkUrlSupport request can meet: an OK response for a supported
\* URL, an OK response for an unsupported URL, a response with an error status
\* (a server error), no response (fetch throws: a network error).
Responses == {"supported", "unsupported", "server error", "network error"}

\* checkUrlSupport: whether it throws, and the UrlSupportResponse it returns.
checkUrlSupport(inputUrl, response) ==
  CASE response = "network error" ->
         [throws |-> TRUE, result |-> Null]
    [] response = "server error" ->
         [throws |-> FALSE,
          result |-> Some([url |-> inputUrl, is_supported |-> FALSE,
                           error_code |-> "NETWORK_ERROR",
                           error_message |-> "cannot connect to the server"])]
    [] response = "supported" ->
         [throws |-> FALSE,
          result |-> Some([url |-> inputUrl, is_supported |-> TRUE,
                           error_code |-> "", error_message |-> ""])]
    [] response = "unsupported" ->
         [throws |-> FALSE,
          result |-> Some([url |-> inputUrl, is_supported |-> FALSE,
                           error_code |-> "UNSUPPORTED_URL", error_message |-> ""])]

\* WelcomeInput is rendered.
isIdle == status = "idle"

\* handleInputChange and the effect on url: the timer is restarted.
HandleInputChange(value) ==
  /\ isIdle
  /\ value # url
  /\ inputChanges < MaxInputs
  /\ inputChanges' = inputChanges + 1
  /\ url' = value
  /\ debounceTimerRef' = Some(value)
  /\ UNCHANGED <<validationState, supportInfo, errorMessage, checking, outsideWelcome>>

\* The timer fires: validateUrl up to its await.
ValidateUrl ==
  /\ isIdle
  /\ debounceTimerRef # Null
  /\ debounceTimerRef' = Null
  /\ LET inputUrl == Val(debounceTimerRef)
     IN IF inputUrl = ""
        THEN /\ validationState' = "idle"
             /\ supportInfo' = Null
             /\ errorMessage' = Null
             /\ UNCHANGED checking
        ELSE IF ~isValidUrlFormat(inputUrl)
        THEN /\ validationState' = "invalid"
             /\ supportInfo' = Null
             /\ errorMessage' = Some("a URL is needed")
             /\ UNCHANGED checking
        ELSE /\ validationState' = "validating"
             /\ errorMessage' = Null
             /\ checking' = checking \cup {inputUrl}
             /\ UNCHANGED supportInfo
  /\ UNCHANGED <<url, inputChanges, outsideWelcome>>

\* validateUrl after its await: the checkUrlSupport call for inputUrl has
\* settled.
ValidateUrlSettles(inputUrl, response) ==
  /\ isIdle
  /\ inputUrl \in checking
  /\ checking' = checking \ {inputUrl}
  /\ LET answer == checkUrlSupport(inputUrl, response)
     IN IF answer.throws
        THEN /\ validationState' = "idle"
             /\ supportInfo' = Null
             /\ errorMessage' = Null
        ELSE /\ supportInfo' = answer.result
             /\ IF Val(answer.result).is_supported
                THEN /\ validationState' = "valid"
                     /\ errorMessage' = Null
                ELSE /\ validationState' = "invalid"
                     /\ errorMessage' =
                          Some(IF Val(answer.result).error_message = ""
                               THEN "this URL is not supported"
                               ELSE Val(answer.result).error_message)
  /\ UNCHANGED <<url, debounceTimerRef, inputChanges, outsideWelcome>>

\* The submit button of WelcomeInput is enabled.
isSubmitEnabled == url # "" /\ validationState # "invalid"

\* handleSubmit of WelcomeInput: onSubmit is the page's handleSubmit.
WelcomeSubmit ==
  /\ isIdle
  /\ isSubmitEnabled
  /\ HandleSubmit(1)

WelcomeNext ==
  \/ \E value \in Inputs : HandleInputChange(value)
  \/ ValidateUrl
  \/ \E inputUrl \in Inputs, response \in Responses : ValidateUrlSettles(inputUrl, response)
  \/ WelcomeSubmit

WelcomeSpec == Init /\ [][WelcomeNext]_vars

\* ------------------------------------------------------------------ article id
\* extractArticleId and hashCode.  Numbers are kept within 32 bits by
\* computing on 16-bit halves, as the code's numbers are exact.
Platforms == {"geeknews", "medium", "other"}

\* new URL(url): null when it throws; else searchParams.get("id") ("" when
\* absent or empty) and the last path segment without its trailing hash (""
\* when there is none).
ParsedUrls ==
  {Null} \cup { Some([topicId |-> i, slugClean |-> c]) : i \in {"", "42"}, c \in {"", "post"} }

\* The values of charCodeAt that occur.
CharCodes == {2, 9, 12, 30, 2325, 65535}

Int32Max == 2147483647
Int32Min == (0 - Int32Max) - 1

\* The two 16-bit halves of the two's complement of n, and the signed 32-bit
\* integer with these halves (ToInt32).
LowHalf(n) == n % 65536
HighHalf(n) == (n \div 65536) % 65536
Int32(high, low) == (IF high >= 32768 THEN high - 65536 ELSE high) * 65536 + low

\* One turn of the loop of hashCode:
\*   hash = (hash << 5) - hash + char;  hash = hash & hash;
\* that is ToInt32(31 * hash + char).
HashStep(h, char) ==
  LET low == 31 * LowHalf(h) + char
  IN Int32((31 * HighHalf(h) + (low \div 65536)) % 65536, low % 65536)

\* hashCode of the code units s, starting from h.
RECURSIVE HashFrom(_, _)
HashFrom(s, h) == IF s = <<>> THEN h ELSE HashFrom(Tail(s), HashStep(h, Head(s)))
hashCode(s) == HashFrom(s, 0)

\* AbsRemainder as it would be without Math.abs: the remainder of JavaScript
\* has the sign of the dividend.
SignedRemainder(h) ==
  IF h >= 0 THEN h % 100000000 ELSE 0 - ((((0 - (h + 1)) % 100000000) + 1) % 100000000)

\* Math.abs(h) % 100000000; Math.abs(-2^31) is 2^31, computed here from
\* -(h + 1).
AbsRemainder(h) ==
  IF h >= 0 THEN h % 100000000 ELSE (((0 - (h + 1)) % 100000000) + 1) % 100000000

\* The try block of extractArticleId: the id it returns, null when it falls
\* through to the default.
ExtractedId(pf, pu) ==
  IF pu = Null THEN Null
  ELSE IF pf = "geeknews" /\ Val(pu).topicId # ""
       THEN Some(<<"topic_", Val(pu).topicId>>)
  ELSE IF pf = "medium" /\ Val(pu).slugClean # ""
       THEN Some(<<Val(pu).slugClean>>)
  ELSE Null

\* extractArticleId as a function of its arguments.
extractArticleId(pf, pu, s) ==
  IF ExtractedId(pf, pu) # Null THEN Val(ExtractedId(pf, pu))
  ELSE <<"article_", AbsRemainder(hashCode(s))>>

ExtractorInit ==
  /\ PageInit /\ WelcomeMounted /\ DemuxIdle /\ EngineIdle /\ ReplayIdle /\ scenario = "none"
  /\ platform \in Platforms
  /\ parsedUrl \in ParsedUrls
  /\ str = <<>>
  /\ hash = 0
  /\ articleId = Null
  /\ extractor = "called"

\* The try block: return the id of the platform, or go on to the default.
TryExtract ==
  /\ extractor = "called"
  /\ articleId' = ExtractedId(platform, parsedUrl)
  /\ extractor' = IF ExtractedId(platform, parsedUrl) # Null THEN "returned" ELSE "hashing"
  /\ UNCHANGED <<platform, parsedUrl, str, hash, outsideExtractor>>

\* One turn of the loop of hashCode, the next code unit of url being char.
HashChar(char) ==
  /\ extractor = "hashing"
  /\ Len(str) < MaxUrlLen
  /\ str' = Append(str, char)
  /\ hash' = HashStep(hash, char)
  /\ UNCHANGED <<platform, parsedUrl, articleId, extractor, outsideExtractor>>

\* The end of url is reached: hashCode returns, extractArticleId returns the
\* default id.
HashReturns ==
  /\ extractor = "hashing"
  /\ articleId' = Some(<<"article_", AbsRemainder(hash)>>)
  /\ extractor' = "returned"
  /\ UNCHANGED <<platform, parsedUrl, str, hash, outsideExtractor>>

ExtractorNext ==
  \/ TryExtract
  \/ \E char \in CharCodes : HashChar(char)
  \/ HashReturns

ExtractorSpec == ExtractorInit /\ [][ExtractorNext]_vars

\* ------------------------------------------------------------------ replay
\* One run whose two streams have fixed occurrences and whose synthesizeAudio
\* calls have a fixed outcome, played twice, each time under an interleaving
\* of its own: the page is loaded, the run is played until nothing is left,
\* the page is loaded again and the run is played again.

\* The occurrences of a stream: a content event, a done event, an error event,
\* an exception of the reader.
TrackEventKinds == {"content", "done", "error", "throw"}

\* The streams: an exception ends the stream, so it is the last occurrence.
TrackSequences ==
  { q \in SeqsUpTo(TrackEventKinds, MaxTrackEvents) :
      \A i \in 1..(Len(q) - 1) : q[i] # "throw" }

ReplayInit ==
  /\ PageInit /\ WelcomeMounted /\ ExtractorIdle /\ DemuxIdle /\ EngineIdle /\ scenario = "none"
  /\ occurrences \in [Tracks -> TrackSequences]
  /\ outcome \in {"ok", "failed"}
  /\ taken = [t \in Tracks |-> 0]
  /\ round = 1
  /\ firstSettled = Null

\* The switch of the wrapper's for-await loop, and its catch block: the
\* callback an occurrence of kind kind on run r's track t is given to.
Dispatch(r, t, kind) ==
  CASE kind = "content" ->
         IF t = "summary"
         THEN SummaryOnContent(r, <<NL, NL>> \o Star2 \o <<"U">>)
         ELSE ScriptOnContent(r, <<NL, NL>> \o Star2 \o <<"U">>)
    [] kind = "done" ->
         IF t = "summary"
         THEN SummaryOnDone(r, [article_id |-> r, bullet_points |-> 3])
         ELSE ScriptOnDone(r, [article_id |-> r, paragraphs |-> <<5>>])
    [] kind = "error" ->
         IF t = "summary" THEN SummaryOnError(r, ErrorData("m1"))
                          ELSE ScriptOnError(r, ErrorData("m1"))
    [] kind = "throw" ->
         IF t = "summary" THEN SummaryOnError(r, "m2") ELSE ScriptOnError(r, "m2")

\* The next occurrence of the stream of track t reaches the wrapper (the
\* controller of the only run is never aborted).
TakeNext(t) ==
  /\ stream[1][t] = "open"
  /\ taken[t] < Len(occurrences[t])
  /\ taken' = [taken EXCEPT ![t] = @ + 1]
  /\ stream' = IF occurrences[t][taken[t] + 1] = "throw"
               THEN [stream EXCEPT ![1][t] = "closed"] ELSE stream
  /\ Dispatch(1, t, occurrences[t][taken[t] + 1])
  /\ UNCHANGED <<refs, aborted, nRuns, crawl, delivered, supersededWhile, synthFailed,
                 dmx, scenario, eng, wel, aid, occurrences, outcome, round, firstSettled>>

\* A synthesizeAudio call settles, with the outcome fixed for the run.
SynthSettles ==
  \/ outcome = "ok" /\ SynthResolve(1)
  \/ outcome = "failed" /\ \E m \in SynthMsgs : SynthReject(1, m)

\* Nothing of the run is left: every occurrence was taken, no call is pending.
Played ==
  /\ crawl[1] = "resolved"
  /\ \A t \in Tracks : taken[t] = Len(occurrences[t])
  /\ synthPending[1] = 0

\* The settled state of the page.
SettledState ==
  <<status, summaryData, scriptData, error, audioStatus, audioError, synthesizeData>>

\* The page is loaded again after the first replay: HomePage after its first
\* render, the occurrences to be taken anew.
Reload ==
  /\ round = 1
  /\ Played
  /\ round' = 2
  /\ firstSettled' = Some(SettledState)
  /\ taken' = [t \in Tracks |-> 0]
  /\ status' = "idle"
  /\ error' = Null
  /\ crawlData' = Null
  /\ summaryData' = Null
  /\ scriptData' = Null
  /\ audioStatus' = "idle"
  /\ audioError' = Null
  /\ synthesizeData' = Null
  /\ audioUrl' = Null
  /\ streaming' = EmptyStreaming
  /\ scriptStreaming' = EmptyStreaming
  /\ abortControllerRef' = Null
  /\ scriptAbortControllerRef' = Null
  /\ aborted' = {}
  /\ nRuns' = 0
  /\ crawl' = [r \in Runs |-> "none"]
  /\ summaryDone' = [r \in Runs |-> FALSE]
  /\ scriptDone' = [r \in Runs |-> FALSE]
  /\ stream' = [r \in Runs |-> [t \in Tracks |-> "none"]]
  /\ synthPending' = [r \in Runs |-> 0]
  /\ synthCalls' = [r \in Runs |-> 0]
  /\ delivered' = 0
  /\ doneSeen' = [r \in Runs |-> [t \in Tracks |-> FALSE]]
  /\ errSeen' = [r \in Runs |-> [t \in Tracks |-> FALSE]]
  /\ supersededWhile' = [r \in Runs |-> {}]
  /\ synthFailed' = [r \in Runs |-> FALSE]
  /\ UNCHANGED <<dmx, scenario, eng, wel, aid, occurrences, outcome>>

ReplayNext ==
  \/ HandleSubmit(1)
  \/ CrawlResolve(1)
  \/ \E t \in Tracks : TakeNext(t)
  \/ SynthSettles
  \/ Reload

ReplaySpec == ReplayInit /\ [][ReplayNext]_vars

\* ------------------------------------------------------------------ stream demultiplexer
\* summarizeStream and generateScriptStream (the same code but for the URL and
\* the type of the done payload).  Text is a sequence of symbols: a symbol is
\* one character or a fixed run of one-byte characters ("event: ", a type
\* name, a piece of JSON text); the two bytes "C3" "A9" encode the character
\* "é".

\* The blocks a server can send, by name.
BlockKinds == {"thinkingA", "contentE", "errorM", "done", "badJson"}

\* The event-type line and the data line of a block of kind k, in bytes.
BlockType(k) ==
  CASE k = "thinkingA" -> "thinking"
    [] k = "contentE" -> "content"
    [] k = "errorM" -> "error"
    [] k = "done" -> "done"
    [] k = "badJson" -> "thinking"
BlockPayload(k) ==
  CASE k = "thinkingA" -> <<"{\"text\":\"a\"}">>
    [] k = "contentE" -> <<"{\"text\":\"", "C3", "A9", "\"}">>
    [] k = "errorM" -> <<"{\"error\":\"m1\"}">>
    [] k = "done" -> <<"{\"article_id\":1}">>
    [] k = "badJson" -> <<"{\"text\":">>
BlockBytes(k) == <<"event: ", BlockType(k), NL, "data: ">> \o BlockPayload(k)

\* The response body: the blocks, each followed by the blank-line delimiter,
\* the last one only when term.
RECURSIVE Wire(_, _)
Wire(bs, term) ==
  IF bs = <<>> THEN <<>>
  ELSE BlockBytes(Head(bs))
       \o (IF Len(bs) > 1 \/ term THEN <<NL, NL>> ELSE <<>>)
       \o Wire(Tail(bs), term)

\* decoder.decode(value, { stream: true }) with the bytes the decoder held:
\* the characters, and the bytes of an incomplete character it holds now.
RECURSIVE DecodeChars(_)
DecodeChars(bytes) ==
  IF bytes = <<>> THEN <<>>
  ELSE IF Head(bytes) = "C3"
       THEN IF Len(bytes) >= 2 /\ bytes[2] = "A9"
            THEN <<"é">> \o DecodeChars(Tail(Tail(bytes)))
            ELSE IF Len(bytes) = 1 THEN <<>>
                 ELSE <<"?">> \o DecodeChars(Tail(bytes))
       ELSE IF Head(bytes) = "A9" THEN <<"?">> \o DecodeChars(Tail(bytes))
       ELSE <<Head(bytes)>> \o DecodeChars(Tail(bytes))
DecodeHeld(bytes) ==
  IF bytes # <<>> /\ bytes[Len(bytes)] = "C3" THEN <<"C3">> ELSE <<>>

\* JSON.parse of a data line: whether it returns, and the text / error members
\* of what it returns ("" when absent).  Every text that is not one of the
\* four JSON documents is a syntax error.
JSONParse(eventData) ==
  CASE eventData = <<"{\"text\":\"a\"}">> -> [ok |-> TRUE, text |-> "a", error |-> ""]
    [] eventData = <<"{\"text\":\"", "é", "\"}">> -> [ok |-> TRUE, text |-> "é", error |-> ""]
    [] eventData = <<"{\"error\":\"m1\"}">> -> [ok |-> TRUE, text |-> "", error |-> "m1"]
    [] eventData = <<"{\"article_id\":1}">> -> [ok |-> TRUE, text |-> "", error |-> ""]
    [] OTHER -> [ok |-> FALSE, text |-> "", error |-> ""]

\* The loop over the lines of a block: the event type and the data it ends with.
RECURSIVE ScanLines(_, _, _)
ScanLines(lines, eventType, eventData) ==
  IF lines = <<>> THEN [eventType |-> eventType, eventData |-> eventData]
  ELSE LET line == Head(lines)
       IN IF IsAt(line, 1, <<"event: ">>)
          THEN ScanLines(Tail(lines), Tail(line), eventData)
          ELSE IF IsAt(line, 1, <<"data: ">>)
               THEN ScanLines(Tail(lines), eventType, Tail(line))
               ELSE ScanLines(Tail(lines), eventType, eventData)

\* The try block: the event yielded for a block of type eventType whose data
\* parsed to parsed (none when JSON.parse threw or the type is unknown).
ParsedEvents(eventType, parsed) ==
  IF ~parsed.ok THEN <<>>
  ELSE IF eventType \in {<<"thinking">>, <<"content">>}
       THEN <<[type |-> eventType[1], data |-> parsed.text]>>
  ELSE IF eventType = <<"done">>
       THEN <<[type |-> "done", data |-> "parsed"]>>
  ELSE IF eventType = <<"error">>
       THEN <<[type |-> "error",
               data |-> ErrorData(parsed.error)]>>
  ELSE <<>>

\* `if (!eventData) continue;` and the try block.
ScannedEvents(scan) ==
  IF scan.eventData = <<>> THEN <<>>
  ELSE ParsedEvents(scan.eventType, JSONParse(scan.eventData))

\* The body of `for (const eventText of events)`: the events one block yields
\* (none or one).
BlockEvents(eventText) ==
  IF Trim(eventText) = <<>> THEN <<>>
  ELSE ScannedEvents(ScanLines(Split(eventText, <<NL>>), <<"content">>, <<>>))

\* EventsOf as it would be if a block whose JSON does not parse ended the loop.
RECURSIVE EventsOfStopsAtBadBlock(_)
EventsOfStopsAtBadBlock(events) ==
  IF events = <<>> THEN <<>>
  ELSE LET scan == ScanLines(Split(Head(events), <<NL>>), <<"content">>, <<>>)
       IN IF scan.eventData # <<>> /\ ~JSONParse(scan.eventData).ok THEN <<>>
          ELSE BlockEvents(Head(events)) \o EventsOfStopsAtBadBlock(Tail(events))

RECURSIVE EventsOf(_)
EventsOf(events) ==
  IF events = <<>> THEN <<>>
  ELSE BlockEvents(Head(events)) \o EventsOf(Tail(events))

\* PopRest as it would be if the incomplete last piece were dropped.
PopRestDropsPartial(events) == <<>>

\* buffer = events.pop() || ""
PopRest(events) == events[Len(events)]

\* A call starts: fetch has answered with an OK status and a body carrying the
\* blocks bs.
DemuxInit ==
  /\ PageInit
  /\ WelcomeMounted
  /\ ExtractorIdle
  /\ EngineIdle
  /\ ReplayIdle
  /\ scenario = "none"
  /\ blocks \in SeqsUpTo(BlockKinds, MaxBlocks) \ {<<>>}
  /\ terminated \in BOOLEAN
  /\ unread = Wire(blocks, terminated)
  /\ decoderPending = <<>>
  /\ buffer = <<>>
  /\ yielded = <<>>
  /\ reader = "reading"
  /\ streamResponse = "ok"
  /\ cuts = {}

\* Where a chunk boundary after the first n unread bytes falls.
CutKinds(n) ==
  IF n >= Len(unread) THEN {}
  ELSE IF unread[n] = "C3" THEN {"character"}
  ELSE IF unread[n] = NL /\ unread[n + 1] = NL THEN {"delimiter"}
  ELSE {}

\* One turn of the while loop in which reader.read() returns a chunk of n
\* bytes: decode, append, split (Reassemble: keep the last piece, yield the
\* events of the other pieces).
Reassemble(value, events) ==
  /\ decoderPending' = DecodeHeld(value)
  /\ buffer' = PopRest(events)
  /\ yielded' = yielded \o EventsOf(SubSeq(events, 1, Len(events) - 1))

ReadChunk(n) ==
  /\ reader = "reading"
  /\ n \in 1..Len(unread)
  /\ Reassemble(decoderPending \o SubSeq(unread, 1, n),
                Split(buffer \o DecodeChars(decoderPending \o SubSeq(unread, 1, n)), <<NL, NL>>))
  /\ unread' = SubSeq(unread, n + 1, Len(unread))
  /\ cuts' = cuts \cup CutKinds(n)
  /\ UNCHANGED <<blocks, terminated, reader, streamResponse, outsideDemux>>

\* ReadDone as it would be if what remains in the buffer were parsed as a last
\* block.
ReadDoneFlushesBuffer ==
  /\ reader = "reading"
  /\ unread = <<>>
  /\ reader' = "returned"
  /\ yielded' = yielded \o BlockEvents(buffer)
  /\ buffer' = <<>>
  /\ UNCHANGED <<blocks, terminated, unread, decoderPending, streamResponse, cuts,
                 outsideDemux>>

\* The turn in which reader.read() returns done: break, the generator returns.
ReadDone ==
  /\ reader = "reading"
  /\ unread = <<>>
  /\ reader' = "returned"
  /\ UNCHANGED <<blocks, terminated, unread, decoderPending, buffer, yielded,
                 streamResponse, cuts, outsideDemux>>

DemuxNext ==
  \/ \E n \in 1..Len(unread) : ReadChunk(n)
  \/ ReadDone

DemuxSpec == DemuxInit /\ [][DemuxNext]_vars

\* ------------------------------------------------------------------ stream call
\* One call of summarizeStream / generateScriptStream from its start: the
\* request is answered, then the body is read as in DemuxSpec.

\* What fetch can answer with: an OK response with a body, an OK response
\* without a body, a response with an error status whose body is JSON with a
\* detail, JSON without a detail, or not JSON.
FailedResponses == {"no body", "error with detail", "error without detail",
                    "error not JSON"}
StreamResponses == {"ok"} \cup FailedResponses

\* The fixed texts of the two error events (Korean sentences in the source).
RequestFailed == "the request failed"
NoStreamingBody == "no streaming response"

\* ErrorEvents as it would be if a failed response yielded nothing.
ErrorEventsNone(answer) == <<>>

\* The events the generator yields before reading, for the response answer;
\* response.json() throws on a body that is not JSON.
ErrorEvents(answer) ==
  CASE answer = "error with detail" -> <<[type |-> "error", data |-> "d1"]>>
    [] answer = "error without detail" -> <<[type |-> "error", data |-> RequestFailed]>>
    [] answer = "no body" -> <<[type |-> "error", data |-> NoStreamingBody]>>
    [] OTHER -> <<>>

\* A call starts: the request has been sent, the server will answer with the
\* blocks bs if it answers with a body.
CallInit ==
  /\ PageInit
  /\ WelcomeMounted
  /\ ExtractorIdle
  /\ EngineIdle
  /\ ReplayIdle
  /\ scenario = "none"
  /\ blocks \in SeqsUpTo(BlockKinds, MaxBlocks) \ {<<>>}
  /\ terminated \in BOOLEAN
  /\ unread = Wire(blocks, terminated)
  /\ decoderPending = <<>>
  /\ buffer = <<>>
  /\ yielded = <<>>
  /\ reader = "idle"
  /\ streamResponse = "none"
  /\ cuts = {}

\* fetch resolves with the response answer: the generator runs up to its
\* first read, or yields its error event and returns, or throws.
FetchResolves(answer) ==
  /\ reader = "idle"
  /\ streamResponse' = answer
  /\ yielded' = ErrorEvents(answer)
  /\ reader' = IF answer = "ok" THEN "reading"
               ELSE IF answer = "error not JSON" THEN "threw"
               ELSE "returned"
  /\ UNCHANGED <<blocks, terminated, unread, decoderPending, buffer, cuts, outsideDemux>>

\* The number of onError calls the callback wrapper makes for the call: one
\* for each error event, one in its catch block when the generator threw.
RECURSIVE ErrorEventCount(_)
ErrorEventCount(events) ==
  IF events = <<>> THEN 0
  ELSE (IF Head(events).type = "error" THEN 1 ELSE 0) + ErrorEventCount(Tail(events))
OnErrorCalls == ErrorEventCount(yielded) + (IF reader = "threw" THEN 1 ELSE 0)

CallNext ==
  \/ \E answer \in StreamResponses : FetchResolves(answer)
  \/ \E n \in 1..Len(unread) : ReadChunk(n)
  \/ ReadDone

CallSpec == CallInit /\ [][CallNext]_vars

\* ------------------------------------------------------------------ speech synthesis engine
\* AudioService.synthesize_speech: one synthesis call per segment, all started
\* together; the audio of the segments is merged in segment order with a block
\* of silence between consecutive segments, and stored.  Audio is a sequence
\* of samples: the audio of segment i is the one sample i, silence is the one
\* sample 0.
Audio(i) == <<i>>
Silence == <<0>>

\* _merge_audio_chunks as it would be if the chunks were taken in the order in
\* which the calls settled.
MergeInCompletionOrder(cs) ==
  LET n == Len(cs)
      RECURSIVE From(_)
      From(k) == IF k > n THEN <<>>
                 ELSE cs[completed[k]] \o (IF k < n THEN Silence ELSE <<>>) \o From(k + 1)
  IN From(1)

\* _merge_audio_chunks(chunks, silence_ms): the chunks in list order, silence
\* between consecutive chunks.
RECURSIVE MergeAudioChunks(_)
MergeAudioChunks(cs) ==
  IF cs = <<>> THEN <<>>
  ELSE IF Len(cs) = 1 THEN Head(cs)
  ELSE Head(cs) \o Silence \o MergeAudioChunks(Tail(cs))

\* AllSettled as it would be if the first failure ended the wait.
AnyFailedOrAllSettled ==
  \/ \E i \in 1..segments : call[i] = "failed"
  \/ \A i \in 1..segments : call[i] # "pending"

\* Every synthesis call of the script has settled.
AllSettled == \A i \in 1..segments : call[i] # "pending"

\* synthesize_speech is called with a script of 1..MaxSegments segments and
\* has dispatched the calls.
EngineInit ==
  /\ PageInit /\ WelcomeMounted /\ ExtractorIdle /\ DemuxIdle /\ ReplayIdle /\ scenario = "none"
  /\ segments \in 1..MaxSegments
  /\ call = [i \in 1..segments |-> "pending"]
  /\ chunks = [i \in 1..segments |-> <<>>]
  /\ completed = <<>>
  /\ engine = "awaiting"
  /\ stored = <<>>
  /\ raised = <<>>

\* _call_openai_tts for segment i returns the audio.
CallResolve(i) ==
  /\ i \in 1..segments
  /\ call[i] = "pending"
  /\ call' = [call EXCEPT ![i] = "ok"]
  /\ chunks' = [chunks EXCEPT ![i] = Audio(i)]
  /\ completed' = Append(completed, i)
  /\ UNCHANGED <<segments, engine, stored, raised, outsideEngine>>

\* _call_openai_tts for segment i raises.
CallReject(i) ==
  /\ i \in 1..segments
  /\ call[i] = "pending"
  /\ call' = [call EXCEPT ![i] = "failed"]
  /\ completed' = Append(completed, i)
  /\ UNCHANGED <<segments, chunks, engine, stored, raised, outsideEngine>>

\* All calls succeeded: merge, store, return.
SynthesizeReturn ==
  /\ engine = "awaiting"
  /\ AllSettled
  /\ \A i \in 1..segments : call[i] = "ok"
  /\ stored' = Append(stored, MergeAudioChunks(chunks))
  /\ engine' = "done"
  /\ UNCHANGED <<segments, call, chunks, completed, raised, outsideEngine>>

\* Some call failed: once all have settled the first error is surfaced and
\* nothing is stored.
SynthesizeRaise ==
  /\ engine = "awaiting"
  /\ AllSettled
  /\ \E i \in 1..segments : call[i] = "failed"
  /\ raised' = Append(raised,
                 LET k == Min({ j \in 1..Len(completed) : call[completed[j]] = "failed" })
                 IN completed[k])
  /\ engine' = "failed"
  /\ UNCHANGED <<segments, call, chunks, completed, stored, outsideEngine>>

EngineNext ==
  \/ \E i \in 1..MaxSegments : CallResolve(i)
  \/ \E i \in 1..MaxSegments : CallReject(i)
  \/ SynthesizeReturn
  \/ SynthesizeRaise

EngineSpec == EngineInit /\ [][EngineNext]_vars

\* ------------------------------------------------------------------ rendering
\* AudioPlayerCard: the flags it derives from its props
isSynthesizing == audioStatus = "synthesizing"
isAudioReady == audioStatus = "ready" /\ audioUrl # Null
isScriptDone == audioStatus = "done" /\ scriptData # Null
hasError == audioStatus = "error"

\* AudioPlayerCard renders the paragraphs of scriptData (in one of its three
\* blocks: synthesizing, script done, audio ready).
ScriptRendered ==
  /\ scriptData # Null
  /\ ~scriptStreaming.isStreaming
  /\ isSynthesizing \/ isScriptDone \/ isAudioReady

\* AudioPlayerCard renders its error block, headed "script generation failed".
ScriptFailureRendered == hasError

\* ------------------------------------------------------------------ claims
\* No work of any run is in flight.
Quiescent == \A r \in Runs : InFlight(r) = {}

\* An occurrence (event, end of input, exception) on the stream of run r, track t.
StreamStep(r, t) ==
  \/ \E d \in Deltas : DeliverThinking(r, t, d)
  \/ \E d \in Deltas : DeliverContent(r, t, d)
  \/ t = "summary" /\ \E p \in SummaryPayloads(r) : DeliverSummaryDone(r, p)
  \/ t = "script" /\ \E p \in ScriptPayloads(r) : DeliverScriptDone(r, p)
  \/ \E m \in EventMsgs : DeliverError(r, t, ErrorData(m))
  \/ StreamEnd(r, t)
  \/ \E m \in Msgs : StreamThrow(r, t, m)

\* The completion of a synthesizeAudio call of run r.
SynthStep(r) == SynthResolve(r) \/ \E m \in SynthMsgs : SynthReject(r, m)

\* C1: once the controller of a track has been aborted, no occurrence on that
\* track's stream (a queued event, end of input, an exception of the reader)
\* changes any observable state.
C1_PostCancelDeliveryIsNoOp ==
  [][\A r \in Runs, t \in Tracks :
       (Aborted(r, t) /\ StreamStep(r, t)) => UNCHANGED obs]_vars

\* C2: when handleSubmit was called while a synthesizeAudio call of an earlier
\* run was in flight, the completion of that call sets none of synthesizeData,
\* audioUrl, audioError, audioStatus.
C2_SupersededSynthesisDiscarded ==
  [][\A r \in Runs :
       ("synth" \in supersededWhile[r] /\ SynthStep(r))
         => UNCHANGED <<synthesizeData, audioUrl, audioError, audioStatus>>]_vars

\* C3: when handleSubmit was called while the crawlUrl call of an earlier run
\* was pending, the settling of that call sets none of crawlData, status,
\* error, audioStatus, starts no track and leaves the abort handles alone.
C3_SupersededCrawlNotMutated ==
  [][\A r \in Runs :
       ("crawl" \in supersededWhile[r] /\ crawl[r] = "pending" /\ crawl'[r] # "pending")
         => UNCHANGED <<crawlData, status, error, audioStatus, stream, refs>>]_vars

\* C4: when some run was superseded while it had work in flight, then once no
\* work is in flight every result the page holds is one of the latest run.
C4_TerminalStateIsLatestRun ==
  (Quiescent /\ \E r \in Runs : supersededWhile[r] # {})
    => /\ crawlData \in {Null, Some(nRuns)}
       /\ summaryData # Null => Val(summaryData).article_id = nRuns
       /\ scriptData # Null => Val(scriptData).article_id = nRuns
       /\ synthesizeData # Null => Val(synthesizeData).article_id = nRuns
       /\ audioUrl \in {Null, Some(nRuns)}
       /\ status \in {"done", "error"}

\* C5: whenever synthesizeAudio is called in a run, the script track of that
\* run has delivered done and has not failed.
C5_SynthesisOnlyAfterScriptDone ==
  [][\A r \in Runs :
       synthCalls'[r] > synthCalls[r]
         => doneSeen'[r]["script"] /\ ~errSeen[r]["script"]]_vars

C7_TracksAreIndependent ==
  [][\A r \in Runs :
       /\ \/ UNCHANGED <<scriptStreaming, scriptData, audioStatus, audioError,
                         synthesizeData, audioUrl, crawlData>>
          \/ ~StreamStep(r, "summary")
       /\ \/ UNCHANGED <<streaming, summaryData, error, crawlData>>
          \/ ~(StreamStep(r, "script") \/ SynthStep(r))]_vars

\* The summary track has failed and the script track has failed, one after
\* the other, while the other track held text and the summary a result.
C7_Witness ==
  /\ error # Null /\ Val(error).stage = "summarize"
  /\ scriptData # Null
  /\ audioStatus = "synthesizing"
  /\ scriptStreaming.thinking # <<>>

\* C8: when synthesizeAudio fails, scriptData keeps the script result, the
\* script result is still rendered, and the card does not report a script
\* generation failure.
C8_SynthesisFailureKeepsScript ==
  [][\A r \in Runs :
       (\E m \in SynthMsgs : SynthReject(r, m))
         => /\ scriptData' = scriptData
            /\ scriptData' # Null
            /\ ScriptRendered'
            /\ ~ScriptFailureRendered']_vars

\* C9: a stream that has ended without its track having been cancelled has
\* made the track terminal (done or failed) with isStreaming cleared, and once
\* no work is in flight status is not "processing".
C9_EndOfInputIsFailure ==
  /\ \A r \in Runs, t \in Tracks :
       (stream[r][t] = "closed" /\ ~Aborted(r, t) /\ r = nRuns)
         => /\ doneSeen[r][t] \/ errSeen[r][t]
            /\ ~(IF t = "summary" THEN streaming.isStreaming
                                  ELSE scriptStreaming.isStreaming)
  /\ Quiescent => status # "processing"

\* C10: summaryData never holds a summary without bullet points, scriptData
\* never holds a script without paragraphs or with an empty paragraph.
C10_ResultsAreValidated ==
  /\ summaryData # Null => Val(summaryData).bullet_points >= 1
  /\ scriptData # Null =>
       /\ Len(Val(scriptData).paragraphs) >= 1
       /\ \A i \in 1..Len(Val(scriptData).paragraphs) : Val(scriptData).paragraphs[i] > 0

\* C11: once a track has processed a done or an error event, no later
\* occurrence on the same stream (thinking, content, a second done, an error,
\* an exception of the reader) changes that track's result, error, accumulator
\* or isStreaming flag; and no track is both done and failed.
C11_TerminalStatesAbsorbing ==
  /\ [][\A r \in Runs :
          /\ ((doneSeen[r]["summary"] \/ errSeen[r]["summary"]) /\ StreamStep(r, "summary"))
               => UNCHANGED <<summaryData, error, streaming>>
          /\ ((doneSeen[r]["script"] \/ errSeen[r]["script"]) /\ StreamStep(r, "script"))
               => UNCHANGED <<scriptData, audioError, scriptStreaming>>]_vars
  /\ [](\A r \in Runs, t \in Tracks : ~(doneSeen[r][t] /\ errSeen[r][t]))

\* C12: within one run synthesizeAudio is invoked at most once (and so
\* synthesizeData / audioUrl are set at most once by that run), whatever events
\* the script stream delivers.
C12_SynthesisAtMostOnce ==
  \A r \in Runs : synthCalls[r] <= 1

\* C13: status is "done" only where the summary track and the script track of
\* the run are terminal and no synthesis is running: audioStatus is not
\* "synthesizing" and no synthesizeAudio call of the run is in flight.
C13_SettledOnlyWhenAllTerminal ==
  status = "done"
    => /\ \A t \in Tracks : doneSeen[nRuns][t] \/ errSeen[nRuns][t]
       /\ audioStatus # "synthesizing"
       /\ synthPending[nRuns] = 0

\* The event a block of kind k stands for.
ExpectedEvent(k) ==
  [type |-> BlockType(k),
   data |-> CASE k = "thinkingA" -> "a"
              [] k = "contentE" -> "é"
              [] k = "errorM" -> "m1"
              [] k = "done" -> "parsed"
              [] OTHER -> ""]

\* The events of the blocks bs whose data is valid JSON, in order.
RECURSIVE ExpectedEvents(_)
ExpectedEvents(bs) ==
  IF bs = <<>> THEN <<>>
  ELSE (IF Head(bs) = "badJson" THEN <<>> ELSE <<ExpectedEvent(Head(bs))>>)
       \o ExpectedEvents(Tail(bs))

\* The blocks of the stream that are followed by the blank-line delimiter.
DelimitedBlocks == IF terminated THEN blocks ELSE SubSeq(blocks, 1, Len(blocks) - 1)

\* The stream is N valid delimited blocks followed by one valid delimited done block.
ValidStreamEndingInDone ==
  /\ blocks # <<>>
  /\ terminated
  /\ \A i \in 1..Len(blocks) : blocks[i] # "badJson"
  /\ blocks[Len(blocks)] = "done"

\* C14: for a stream of N valid blank-line-delimited blocks followed by a valid
\* done block, whatever the chunks the bytes arrive in, the events yielded so
\* far are those of the first blocks, in block order, and when the generator
\* returns exactly the N+1 events of the blocks have been yielded.
C14_ChunkingIndependence ==
  ValidStreamEndingInDone
    => /\ Len(yielded) <= Len(blocks)
       /\ \A i \in 1..Len(yielded) : yielded[i] = ExpectedEvent(blocks[i])
       /\ reader = "returned" => Len(yielded) = Len(blocks)

\* A stream of three blocks with a two-byte character has been read to its end
\* in chunks that ended inside the delimiter and inside a block, between the
\* two bytes of the character.
C14_Witness ==
  /\ ValidStreamEndingInDone
  /\ reader = "returned"
  /\ Len(blocks) >= 3
  /\ cuts = {"delimiter", "character"}
  /\ Len(yielded) = Len(blocks)

\* C19: a block whose data is not valid JSON yields no event and does not end
\* the stream: when the generator returns, the events yielded are exactly those
\* of the valid delimited blocks before and after it, in order.
C19_BadBlockIsSkipped ==
  (reader = "returned" /\ \E i \in 1..Len(DelimitedBlocks) : DelimitedBlocks[i] = "badJson")
    => yielded = ExpectedEvents(DelimitedBlocks)

\* A stream with a valid block, a block of invalid JSON and another valid
\* block has been read to its end.
C19_Witness ==
  /\ reader = "returned"
  /\ Len(blocks) >= 3 /\ terminated
  /\ blocks[1] # "badJson" /\ blocks[2] = "badJson" /\ blocks[3] # "badJson"
  /\ Len(yielded) = Len(blocks) - 1
  /\ cuts # {}

\* C15: in a run where extraction succeeds, both tracks deliver a done event
\* and synthesis succeeds, whatever the interleaving of the two tracks, the
\* page ends, and stays, in a state with summaryData and scriptData set,
\* audioStatus "ready" and synthesizeData set.
C15_ScenarioA ==
  scenario = "A"
    => <>[](/\ summaryData # Null /\ scriptData # Null
            /\ audioStatus = "ready" /\ synthesizeData # Null)

\* Scenario A has run to its end, with text received on both tracks.
C15_Witness ==
  /\ scenario = "A"
  /\ summaryData # Null /\ scriptData # Null
  /\ audioStatus = "ready" /\ synthesizeData # Null
  /\ status = "done"
  /\ delivered = MaxEvents

\* C16: in a run where extraction succeeds and the summary track fails, at any
\* point relative to the script track's events, the script track still reaches
\* done and synthesis succeeds: the page ends, and stays, in a state with a
\* summarize-stage error, scriptData set and audioStatus "ready".
C16_ScenarioB ==
  scenario = "B"
    => <>[](/\ error # Null /\ Val(error).stage = "summarize"
            /\ scriptData # Null /\ audioStatus = "ready")

\* Scenario B has run to its end: the summary failed, the audio is ready.
C16_Witness ==
  /\ scenario = "B"
  /\ error # Null /\ Val(error).stage = "summarize"
  /\ summaryData = Null
  /\ scriptData # Null /\ audioStatus = "ready" /\ audioUrl # Null
  /\ status = "done"

\* C17: whatever the order in which the segments' synthesis calls complete,
\* the one buffer stored is audio 1, silence, audio 2, silence, ..., audio N:
\* the segments' audio in segment order, one silence block between consecutive
\* segments, none before the first or after the last.
C17_MergeInSegmentOrder ==
  engine = "done"
    => /\ Len(stored) = 1
       /\ Len(stored[1]) = 2 * segments - 1
       /\ \A i \in 1..segments : stored[1][2 * i - 1] = i
       /\ \A i \in 1..(segments - 1) : stored[1][2 * i] = 0

\* A script of three segments has been synthesized, the last segment's call
\* having completed first.
C17_Witness ==
  /\ engine = "done"
  /\ segments >= 3
  /\ completed[1] = segments
  /\ Len(stored) = 1

C20_CallbacksInArrivalOrder ==
  [][\A r \in Runs, t \in Tracks, d \in Deltas :
       /\ \/ ~DeliverThinking(r, t, d)
          \/ Aborted(r, t)
          \/ /\ Accumulator(t)'.thinking = Accumulator(t).thinking \o d
             /\ Accumulator(t)'.content = Accumulator(t).content
             /\ \A u \in Tracks \ {t} : Accumulator(u)' = Accumulator(u)
       /\ \/ ~DeliverContent(r, t, d)
          \/ Aborted(r, t)
          \/ /\ Accumulator(t)'.content = Accumulator(t).content \o d
             /\ Accumulator(t)'.thinking = Accumulator(t).thinking
             /\ \A u \in Tracks \ {t} : Accumulator(u)' = Accumulator(u)]_vars

\* Two different thinking deltas and a content delta have arrived on the
\* summary track.
C20_Witness ==
  /\ \E d1, d2 \in Deltas : d1 # d2 /\ streaming.thinking = d1 \o d2
  /\ streaming.content # <<>>

\* Track t has failed with the message m surfaced for it.
FailedWith(t, m) ==
  IF t = "summary"
  THEN /\ error = Some([stage |-> "summarize", message |-> m])
       /\ ~streaming.isStreaming
  ELSE /\ audioError = Some(m)
       /\ audioStatus = "error"
       /\ ~scriptStreaming.isStreaming

\* C21 as stated: an error event carrying the message m that is handed to the
\* callbacks, or an Error with the message m thrown by the stream, makes the
\* track failed with exactly m surfaced for it.
C21_ErrorMessageVerbatim ==
  [][\A r \in Runs, t \in Tracks :
       /\ \A m \in EventMsgs :
            (DeliverError(r, t, ErrorData(m)) /\ ~Aborted(r, t)) => FailedWith(t, m)'
       /\ \A m \in Msgs : StreamThrow(r, t, m) => FailedWith(t, m)']_vars

\* C21, amended: an error event carrying a non-empty message m that is handed
\* to the callbacks, or an Error with the message m thrown by the stream, makes
\* the track failed with exactly m surfaced for it; an error event whose
\* message is empty makes the track failed with the fixed text surfaced.
C21_NonEmptyErrorMessageVerbatim ==
  [][\A r \in Runs, t \in Tracks :
       /\ \A m \in EventMsgs \ {""} :
            (DeliverError(r, t, ErrorData(m)) /\ ~Aborted(r, t)) => FailedWith(t, m)'
       /\ (DeliverError(r, t, ErrorData("")) /\ ~Aborted(r, t))
            => FailedWith(t, UnknownError)'
       /\ \A m \in Msgs : StreamThrow(r, t, m) => FailedWith(t, m)']_vars

\* The summary track has failed with the message of its error event, the
\* script track with the fixed text given to an error event without message.
C21_Witness ==
  /\ FailedWith("summary", "m1")
  /\ FailedWith("script", UnknownError)

\* a is a prefix of b
IsPrefix(a, b) == Len(a) <= Len(b) /\ SubSeq(b, 1, Len(a)) = a

\* C22: a step that is a handleSubmit call leaves the thinking and content
\* buffers of both tracks empty, with no stream of the new run started; every
\* other step leaves each buffer with its old value as a prefix of its new
\* value.
C22_AccumulatorsAppendOnly ==
  [][IF nRuns' # nRuns
     THEN /\ \A t \in Tracks :
               /\ Accumulator(t)'.thinking = <<>>
               /\ Accumulator(t)'.content = <<>>
               /\ stream'[nRuns'][t] = "none"
     ELSE \A t \in Tracks :
            /\ IsPrefix(Accumulator(t).thinking, Accumulator(t)'.thinking)
            /\ IsPrefix(Accumulator(t).content, Accumulator(t)'.content)]_vars

\* A second run, submitted after both tracks of the first had ended, has
\* received text on its summary track.
C22_Witness ==
  /\ nRuns = 2
  /\ \A t \in Tracks : doneSeen[1][t] \/ errSeen[1][t]
  /\ stream[2]["summary"] = "open"
  /\ streaming.content \in Deltas

\* C23: for fixed occurrences of the two streams and a fixed synthesis
\* outcome, the settled state a replay of the run ends in is the settled state
\* the first replay ended in, whatever the two interleavings were.
C23_SettledStateIsInterleavingIndependent ==
  (round = 2 /\ Played) => SettledState = Val(firstSettled)

\* b is the last block of buf: the text after the last blank line that is
\* followed by a heading marker, all of buf when there is none.
IsLastBlockOf(b, buf) ==
  /\ \E i \in 1..(Len(buf) + 1) :
       /\ b = SubSeq(buf, i, Len(buf))
       /\ i = 1 \/ (i >= 3 /\ buf[i - 2] = NL /\ buf[i - 1] = NL /\ IsAt(buf, i, Star2))
  /\ ~\E j \in 1..Len(b) : IsAt(b, j, <<NL, NL>> \o Star2)

\* b begins with the heading h: a marker, the text h of one line, a marker,
\* with no shorter such text.
BeginsWithHeading(b, h) ==
  /\ h # <<>>
  /\ IsAt(b, 1, Star2 \o h \o Star2)
  /\ \A j \in 1..Len(h) : h[j] # NL
  /\ \A k \in 1..(Len(h) - 1) : ~IsAt(b, 3 + k, Star2)

\* b begins with a heading.
HasHeading(b) == \E n \in 1..(Len(b) - 4) : BeginsWithHeading(b, SubSeq(b, 3, 2 + n))

\* title and content are the heading and the trimmed body of the last block
\* of buf.
HeadingAndBodyOfLastBlock(buf, title, content) ==
  \E i \in 1..(Len(buf) + 1) :
    LET b == SubSeq(buf, i, Len(buf))
    IN /\ IsLastBlockOf(b, buf)
       /\ IF HasHeading(b)
          THEN /\ BeginsWithHeading(b, title)
               /\ content = Trim(SubSeq(b, Len(title) + 5, Len(b)))
          ELSE /\ title = <<>>
               /\ content = Trim(b)

\* C24 as stated: what onThinking shows is the heading and the trimmed body of
\* the last block of the reasoning buffer, and when the buffer contains no
\* blank line followed by a heading marker the heading is empty and the body
\* is the whole buffer (trimmed, as every body is).
C24_NoBoundaryNoHeading ==
  /\ HeadingAndBodyOfLastBlock(streaming.thinking, streaming.currentThinkingTitle,
                               streaming.currentThinkingContent)
  /\ BlockBreaks(streaming.thinking) = {}
       => /\ streaming.currentThinkingTitle = <<>>
          /\ streaming.currentThinkingContent = Trim(streaming.thinking)

\* C24, amended: what onThinking shows is the heading and the trimmed body of
\* the last block of the reasoning buffer; a buffer that contains no blank
\* line followed by a heading marker is one block, whose heading is empty,
\* with the trimmed buffer as the body, exactly when the buffer does not begin
\* with a complete heading.
C24_LastBlockHeadingAndBody ==
  /\ HeadingAndBodyOfLastBlock(streaming.thinking, streaming.currentThinkingTitle,
                               streaming.currentThinkingContent)
  /\ BlockBreaks(streaming.thinking) = {}
       => IF HasHeading(streaming.thinking)
          THEN streaming.currentThinkingTitle # <<>>
          ELSE /\ streaming.currentThinkingTitle = <<>>
               /\ streaming.currentThinkingContent = Trim(streaming.thinking)

\* The buffer holds two blocks; the last one has a heading and a body.
C24_Witness ==
  /\ BlockBreaks(streaming.thinking) # {}
  /\ streaming.currentThinkingTitle # <<>>
  /\ streaming.currentThinkingContent # <<>>
  /\ Len(streaming.thinking) > Max(BlockBreaks(streaming.thinking)) + 1 + 5

\* A heading is completed in the text added to buf1 to give buf2: the last
\* block of buf2 begins with a complete heading whose closing marker ends in
\* the added text.
HeadingCompletedIn(buf1, buf2) ==
  LET b == LastBlock(buf2)
  IN /\ TitleLens(b) # {}
     /\ (Len(buf2) - Len(b)) + 4 + Min(TitleLens(b)) > Len(buf1)

\* C25: when text is added to the reasoning buffer and no heading is completed
\* in the added text, the heading shown is the heading shown before: a heading
\* is not replaced by the empty heading while the next heading is only
\* partially received.
C25_HeadingStableUntilNextCompleted ==
  [][(nRuns' = nRuns
      /\ streaming'.thinking # streaming.thinking
      /\ ~HeadingCompletedIn(streaming.thinking, streaming'.thinking))
       => streaming'.currentThinkingTitle = streaming.currentThinkingTitle]_vars

\* The item list new keeps the item list old: it is not shorter, it has every
\* item of old but the last unchanged, and the last item of old has only grown.
KeepsItems(old, new) ==
  /\ Len(new) >= Len(old)
  /\ \A i \in 1..(Len(old) - 1) : new[i] = old[i]
  /\ old # <<>> => IsPrefix(old[Len(old)], new[Len(old)])

\* C26: whenever content is added to the answer buffer of a track, the items
\* its card parses from the new buffer (bullet points of the summary,
\* paragraphs of the script) keep the items parsed from the old buffer; also
\* in the step in which the body section marker first appears.
C26_AnswerItemsOnlyGrow ==
  [][nRuns' = nRuns
       => /\ KeepsItems(parseStreamingBulletPoints(streaming.content),
                        parseStreamingBulletPoints(streaming'.content))
          /\ KeepsItems(parseStreamingParagraphs(scriptStreaming.content),
                        parseStreamingParagraphs(scriptStreaming'.content))]_vars

\* C27: the extraction request of a run is issued by its handleSubmit call and
\* never again, each stream request of a run is issued once, and no stream
\* request of a track that has failed and no synthesis request of a run whose
\* synthesis has failed is issued.
C27_NothingIsRetried ==
  [][\A r \in Runs :
       /\ (crawl'[r] = "pending" /\ crawl[r] # "pending")
            => (crawl[r] = "none" /\ nRuns' = r /\ nRuns = r - 1)
       /\ \A t \in Tracks :
            (stream'[r][t] = "open" /\ stream[r][t] # "open")
              => (stream[r][t] = "none" /\ crawl[r] = "pending" /\ ~errSeen[r][t])
       /\ crawl[r] = "rejected" => crawl'[r] = "rejected"
       /\ synthFailed[r] => synthCalls'[r] = synthCalls[r]]_vars

\* C28: when a checkUrlSupport call ends in a network error or a server error,
\* validationState does not become "invalid", and the submit button stays
\* enabled for the input the call was made for.
C28_FailedCheckKeepsSubmit ==
  [][\A inputUrl \in Inputs, response \in {"network error", "server error"} :
       ValidateUrlSettles(inputUrl, response)
         => /\ validationState' # "invalid"
            /\ url = inputUrl => isSubmitEnabled']_vars

\* C29: a form submits only while status is neither "crawling" nor
\* "processing", so a run starts only from status "idle", "done" or "error",
\* and at that moment the only work of an earlier run still in flight is a
\* synthesizeAudio call or a stream that stayed open after its done or error
\* event.
C29_RunStartsOnlyAfterEarlierRunsSettled ==
  [][nRuns' # nRuns =>
       /\ status \in {"idle", "done", "error"}
       /\ \A q \in 1..nRuns :
            /\ crawl[q] # "pending"
            /\ \A t \in Tracks :
                 stream[q][t] = "open" => (doneSeen[q][t] \/ errSeen[q][t])]_vars

\* C30: whenever audioStatus is "ready", scriptData, synthesizeData and
\* audioUrl are all set, and audioUrl is the one built from the article of the
\* current scriptData.
C30_ReadyHasItsArtifacts ==
  audioStatus = "ready" =>
    /\ scriptData # Null
    /\ synthesizeData # Null
    /\ audioUrl # Null
    /\ Val(audioUrl) = Val(scriptData).article_id

\* C31: whenever status is "done", neither track is streaming, the summary
\* track has a result or a summarize-stage error, and the script track has a
\* result or audioStatus "error".
C31_DoneMeansBothTracksSettled ==
  status = "done" =>
    /\ ~streaming.isStreaming
    /\ ~scriptStreaming.isStreaming
    /\ summaryData # Null \/ (error # Null /\ Val(error).stage = "summarize")
    /\ scriptData # Null \/ audioStatus = "error"

\* C32: whenever status is "error", the error shown is the one of the
\* extraction stage.
C32_StatusErrorIsExtractionError ==
  status = "error" => (error # Null /\ Val(error).stage = "crawl")

\* C33: every handleSubmit step aborts the controllers the two refs hold and
\* leaves the observable state reset: status "crawling", every result and
\* error null, audioStatus "idle", both accumulators empty and not streaming.
C33_HandleSubmitAbortsAndResets ==
  [][nRuns' # nRuns =>
       /\ HeldControllers \subseteq aborted'
       /\ status' = "crawling"
       /\ error' = Null
       /\ crawlData' = Null
       /\ summaryData' = Null
       /\ scriptData' = Null
       /\ audioError' = Null
       /\ synthesizeData' = Null
       /\ audioUrl' = Null
       /\ audioStatus' = "idle"
       /\ streaming' = EmptyStreaming
       /\ scriptStreaming' = EmptyStreaming]_vars

\* A second handleSubmit has just reset the page after a run that had
\* delivered results, and has aborted that run's controllers.
C33_Witness ==
  /\ nRuns = 2
  /\ crawl[2] = "pending"
  /\ doneSeen[1]["summary"] /\ doneSeen[1]["script"]
  /\ {<<1, "summary">>, <<1, "script">>} \subseteq aborted
  /\ status = "crawling"
  /\ summaryData = Null /\ scriptData = Null
  /\ streaming = EmptyStreaming /\ scriptStreaming = EmptyStreaming

\* C34: when the last block of the stream is not followed by the blank-line
\* delimiter, the events yielded are at every moment events of the delimited
\* blocks, in order; when the generator returns they are exactly those, what
\* remains in the buffer is not parsed, and a final done block has produced no
\* done event.
C34_UnterminatedFinalBlockDiscarded ==
  ~terminated =>
    /\ IsPrefix(yielded, ExpectedEvents(DelimitedBlocks))
    /\ reader = "returned" =>
         /\ yielded = ExpectedEvents(DelimitedBlocks)
         /\ buffer # <<>>
         /\ (blocks[Len(blocks)] = "done"
               /\ \A i \in 1..(Len(blocks) - 1) : blocks[i] # "done")
              => \A i \in 1..Len(yielded) : yielded[i].type # "done"

\* A stream of valid blocks ending in a done block without the delimiter has
\* been read to its end: the events of the blocks before it were yielded, the
\* done block is still in the buffer.
C34_Witness ==
  /\ ~terminated
  /\ reader = "returned"
  /\ Len(blocks) >= 2
  /\ blocks[Len(blocks)] = "done"
  /\ \A i \in 1..(Len(blocks) - 1) : blocks[i] \notin {"done", "badJson"}
  /\ Len(yielded) = Len(blocks) - 1
  /\ buffer = BlockBytes("done")

C36_AudioStatusOrder ==
  [][nRuns' = nRuns =>
       \/ audioStatus' = audioStatus
       \/ <<audioStatus, audioStatus'>> \in
            { <<"idle", "scripting">>,
              <<"scripting", "synthesizing">>, <<"scripting", "error">>,
              <<"synthesizing", "ready">>, <<"synthesizing", "error">> }]_vars

\* C37: when no timer is pending and no checkUrlSupport call is in flight,
\* the validation shown is the one of the current input: idle and empty for an
\* empty input, invalid without server answer for a text that is not a URL,
\* and for a URL never the answer the server gave for another input.
C37_ValidationIsOfCurrentInput ==
  (isIdle /\ debounceTimerRef = Null /\ checking = {}) =>
    /\ url = "" =>
         (validationState = "idle" /\ supportInfo = Null /\ errorMessage = Null)
    /\ (url # "" /\ ~isValidUrlFormat(url)) =>
         (validationState = "invalid" /\ supportInfo = Null)
    /\ isValidUrlFormat(url) =>
         /\ validationState \in {"idle", "valid", "invalid"}
         /\ supportInfo # Null => Val(supportInfo).url = url

\* C38: hash is a signed 32-bit integer after every turn of the loop; the id
\* returned is the one function of platform and url; and when the call falls
\* back to the hash of the URL the id is "article_" followed by an integer n
\* with 0 <= n < 100000000.
C38_ArticleIdOfHashInRange ==
  /\ hash >= Int32Min /\ hash <= Int32Max
  /\ hash = hashCode(str)
  /\ extractor = "returned" =>
       /\ articleId = Some(extractArticleId(platform, parsedUrl, str))
       /\ ExtractedId(platform, parsedUrl) = Null =>
            /\ Val(articleId)[1] = "article_"
            /\ Val(articleId)[2] >= 0 /\ Val(articleId)[2] < 100000000

\* The hash of a URL has wrapped around to the least 32-bit integer, and the
\* default id was returned for it.
C38_Witness ==
  /\ extractor = "returned"
  /\ hash = Int32Min
  /\ articleId = Some(<<"article_", 47483648>>)

====
